---- MODULE Spec2Model ----
(***************************************************************************)
(* Browser control layer of mcp-browser-lens: BaseBrowserProvider and      *)
(* ChromeProvider (src/src/browser-providers/base-provider.ts).            *)
(*                                                                         *)
(* One provider instance is shared by a fixed set of callers.  Every       *)
(* caller runs one provider call at a time; a call advances from one       *)
(* `await` of the source to the next in one step, so that calls interleave *)
(* exactly where the JavaScript event loop lets them interleave.  The      *)
(* browser (probe, transports, tab listing, tab attachments, commands)     *)
(* is the environment: each of its answers is a nondeterministic choice.   *)
(***************************************************************************)
EXTENDS Integers, Sequences, FiniteSets, TLC

\* ------------------------------------------------------------------ bounds

\* Number of root transports the browser accepts before refusing new ones.
MaxTransports == 2

\* The concurrent callers of the provider.  Every caller may call connect()
\* and disconnect(); the callers of OpCallers may call every operation.
Callers == {"c1", "c2"}

OpCallers == {"c1"}

\* ------------------------------------------------------------ vocabulary

\* null: no transport handle, no tab attachment handle.
NULL == 0

\* The baseline CDP domains, in the order connect() enables them.
Domains == <<"Page", "Runtime", "DOM">>

DomainSet == {Domains[i] : i \in 1..Len(Domains)}

\* The tab identifiers callers pass, and the targets the browser may list.
TabIds == {"A", "B"}

\* Raw answers of GET /json/list: sequences of targets with a type.
Listings ==
    { <<>>,
      <<[id |-> "A", type |-> "page"]>>,
      <<[id |-> "B", type |-> "service_worker"], [id |-> "A", type |-> "page"]>>,
      <<[id |-> "B", type |-> "page"], [id |-> "A", type |-> "page"]>>,
      <<[id |-> "B", type |-> "service_worker"]>> }

\* Selectors are sequences of characters.
Lower == {"a","b","c","d","e","f","g","h","i","j","k","l","m",
          "n","o","p","q","r","s","t","u","v","w","x","y","z"}
Upper == {"A","B","C","D","E","F","G","H","I","J","K","L","M",
          "N","O","P","Q","R","S","T","U","V","W","X","Y","Z"}
Digits == {"0","1","2","3","4","5","6","7","8","9"}
\* \s of a JavaScript regular expression: the ASCII white space, and the
\* further white space and line terminators of Unicode, written by their
\* code points.
Whitespace ==
    {" ", "\t", "\n", "\r", "\f", "U+000B", "U+00A0", "U+1680",
     "U+2000", "U+2001", "U+2002", "U+2003", "U+2004", "U+2005", "U+2006",
     "U+2007", "U+2008", "U+2009", "U+200A", "U+2028", "U+2029", "U+202F",
     "U+205F", "U+3000", "U+FEFF"}
\* The line terminators of JavaScript.
LineTerminators == {"\n", "\r", "U+2028", "U+2029"}
Punctuation == {"-", "_", "#", ".", "[", "]", ":", "(", ")", ",",
                ">", "+", "~", "*", "=", "\"", "'"}

\* The character class of the regular expression of sanitizeSelectors.
AllowedChars == Lower \cup Upper \cup Digits \cup Whitespace \cup Punctuation

\* /^[...]+$/.test(selector): non-empty and made of allowed characters only.
SelectorAllowed(selector) ==
    /\ Len(selector) >= 1
    /\ \A i \in 1..Len(selector) : selector[i] \in AllowedChars

\* Array.prototype.filter with the allow-list test: order is kept.
sanitizeSelectors(selectors) == SelectSeq(selectors, SelectorAllowed)

SelDiv == <<"d", "i", "v">>
SelId == <<"#", "a">>
SelScript == <<"<", "s", ">">>
SelBrace == <<"a", "{", "}">>

\* The selector lists callers pass to captureCSS and extractElements.
SelectorLists ==
    { <<>>, <<SelDiv>>, <<SelScript>>, <<SelBrace, SelId>> }

\* The sub-captures a captureTab call may request, in the order they run.
SubCaptures == <<"captureScreenshot", "captureHTML", "captureCSS">>

\* The option records of captureTab: which sub-captures are requested.
WantSets ==
    { {}, {"captureScreenshot"}, {"captureHTML", "captureCSS"},
      {"captureScreenshot", "captureHTML", "captureCSS"} }

\* The operations that attach to a tab.
CaptureOps == {"captureScreenshot", "captureHTML", "captureCSS", "extractElements"}

\* The operations that take a tabId and look it up with findTabById.
FindOps == CaptureOps \cup {"setActiveTab"}

\* Every provider operation that requires the Connected state.
GuardedOps == FindOps \cup {"listTabs", "captureTab"}

\* The operations BaseBrowserProvider declares abstract.
AllOps ==
    {"getBrowserType", "getCapabilities", "isAvailable", "connect", "disconnect",
     "listTabs", "captureScreenshot", "captureHTML", "captureCSS", "setActiveTab",
     "extractElements"}

\* capture kind carried by the CaptureError of each operation
CaptureKind ==
    [captureScreenshot |-> "screenshot", captureHTML |-> "html",
     captureCSS |-> "css", extractElements |-> "elements",
     captureTab |-> "complete"]

\* ------------------------------------------------------------- outcomes

\* What a call returns or throws.  `cause` is originalError of a
\* BrowserConnectionError (named by what threw it), `ctype` the captureType
\* of a CaptureError.
Ok(v) == [kind |-> "ok", tabId |-> "", ctype |-> "", browser |-> "", cause |-> "", val |-> v]

BrowserConnectionError(cause) ==
    [kind |-> "BrowserConnectionError", tabId |-> "", ctype |-> "",
     browser |-> "chrome", cause |-> cause, val |-> ""]

TabNotFoundError(tabId) ==
    [kind |-> "TabNotFoundError", tabId |-> tabId, ctype |-> "",
     browser |-> "", cause |-> "", val |-> ""]

CaptureError(tabId, captureType) ==
    [kind |-> "CaptureError", tabId |-> tabId, ctype |-> captureType,
     browser |-> "", cause |-> "", val |-> ""]

\* A plain Error (neither of the three classes above).
PlainError(msg) ==
    [kind |-> "Error", tabId |-> "", ctype |-> "", browser |-> "", cause |-> "", val |-> msg]

NoResult == [kind |-> "none", tabId |-> "", ctype |-> "", browser |-> "", cause |-> "", val |-> ""]

\* Mutant: listTabs without its filter on the target type.
PageTabsUnfiltered(raw) == raw

\* listTabs: keep the targets of type 'page', mark the first one active.
PageTabs(raw) == SelectSeq(raw, LAMBDA t : t.type = "page")

MapTabs(raw) ==
    [i \in 1..Len(PageTabs(raw)) |-> [id |-> PageTabs(raw)[i].id, active |-> (i = 1)]]

\* tabs.find((t) => t.id === tabId) !== undefined
HasTab(tabs, tabId) == \E i \in 1..Len(tabs) : tabs[i].id = tabId

\* No TabInfo: tabs.find(...) returned undefined, or was not called yet.
NoTab == [id |-> "", active |-> FALSE]

\* tabs.find((tab) => tab.id === tabId): the first entry with that id.
FindTab(tabs, tabId) ==
    IF HasTab(tabs, tabId)
    THEN tabs[CHOOSE i \in 1..Len(tabs) :
                /\ tabs[i].id = tabId
                /\ \A j \in 1..(i - 1) : tabs[j].id # tabId]
    ELSE NoTab

\* What isAvailable() meets: a fetch of GET /json/version that fails
\* (network error, timeout), answers with a failure status, or answers with
\* a success status whose body then is JSON ("ok") or is not ("bad_json").
ProbeAnswers == {"ok", "http_error", "network_error", "timeout", "bad_json"}

\* How `await fetch(url)` of isAvailable() settles, and how
\* `await response.json()` settles after a success status.
ProbeFetchAnswers == {"success_status", "http_error", "network_error", "timeout"}

ProbeBodyAnswers == {"ok", "bad_json"}

\* Mutant: isAvailable() looks at nothing but whether the fetch resolved.
isAvailableAnyStatus(answer) == answer \in {"ok", "http_error", "bad_json"}

\* isAvailable(): true only for a success status with a JSON body; every
\* failure is caught and turned into false.
isAvailable(answer) == answer = "ok"

\* The boolean capability flags of a BrowserCapabilities descriptor.
Flags ==
    {"canListTabs", "canCaptureScreenshots", "canCaptureHTML", "canCaptureCSS",
     "canNavigate", "canExtractElements", "canInjectJavaScript",
     "canCaptureFullPage", "canDetectLocalhost"}

TIER_1_CAPABILITIES ==
    [canListTabs |-> TRUE, canCaptureScreenshots |-> TRUE, canCaptureHTML |-> TRUE,
     canCaptureCSS |-> TRUE, canNavigate |-> TRUE, canExtractElements |-> TRUE,
     canInjectJavaScript |-> TRUE, canCaptureFullPage |-> TRUE,
     canDetectLocalhost |-> TRUE,
     supportedImageFormats |-> <<"png", "jpeg", "webp">>,
     limitations |-> <<>>]

TIER_2_CAPABILITIES ==
    [canListTabs |-> TRUE, canCaptureScreenshots |-> TRUE, canCaptureHTML |-> TRUE,
     canCaptureCSS |-> FALSE, canNavigate |-> TRUE, canExtractElements |-> FALSE,
     canInjectJavaScript |-> FALSE, canCaptureFullPage |-> TRUE,
     canDetectLocalhost |-> FALSE,
     supportedImageFormats |-> <<"png">>,
     limitations |-> <<"Limited CSS extraction", "No JavaScript injection">>]

FALLBACK_CAPABILITIES ==
    [canListTabs |-> FALSE, canCaptureScreenshots |-> TRUE, canCaptureHTML |-> FALSE,
     canCaptureCSS |-> FALSE, canNavigate |-> FALSE, canExtractElements |-> FALSE,
     canInjectJavaScript |-> FALSE, canCaptureFullPage |-> FALSE,
     canDetectLocalhost |-> TRUE,
     supportedImageFormats |-> <<"png">>,
     limitations |-> <<"Screen capture only", "No browser integration",
                       "No tab management", "No content extraction">>]

\* ----------------------------------------------------------------- state

VARIABLES
    connected,        \* BaseBrowserProvider.connected
    cdpClient,        \* ChromeProvider.cdpClient: NULL or a root transport
    enabledDomains,   \* ChromeProvider.enabledDomains
    opened,           \* number of root transports the browser has opened
    rootOpen,         \* the root transports that are open
    heldEnabled,      \* the domains enabled on the transport cdpClient holds
    evaluation,       \* the script a capture builds and the page evaluates
    descriptor,       \* the capability constants and a descriptor a caller holds
    server,           \* the factory or tool handler running above the provider
    call              \* per caller, the provider call in progress

vars == <<connected, cdpClient, enabledDomains, opened, rootOpen, heldEnabled,
          evaluation, descriptor, server, call>>

provider == <<connected, cdpClient, enabledDomains>>
aside == <<evaluation, descriptor, server>>
browser == <<opened, rootOpen, heldEnabled, aside>>

\* A caller that is not inside a provider call.
Idle ==
    [op |-> "none",           \* the operation the caller invoked
     inner |-> "none",        \* the operation whose body is executing
     pc |-> "idle",           \* the await the body is suspended at
     tabId |-> "",            \* argument tabId
     selectors |-> <<>>,      \* argument selectors / options.selectors
     want |-> {},             \* captureTab: the sub-captures options asks for
     pending |-> <<>>,        \* captureTab: sub-captures still to run
     captured |-> {},         \* captureTab: fields set on the CaptureResult
     tabInfo |-> NoTab,       \* captureTab: result.tabInfo
     raw |-> <<>>,            \* listTabs: the targets its fetch returned
     tabs |-> <<>>,           \* listTabs: the TabInfo list it returns
     listed |-> "unset",      \* lookup of tabId: did the fetched listing show
                              \* it as a page ("absent", "present")
     available |-> "unset",   \* connect: const isAvailable
     probe |-> "unset",       \* isAvailable: what its fetch met
     tabClient |-> NULL,      \* let tabClient of the capture operations
     attachment |-> "none",   \* the tab attachment opened by `inner`
     domain |-> 0,            \* connect: index of the domain being enabled
     target |-> 0,            \* root transport a pending request was sent on
     root |-> 0,              \* connect: the root transport this call opened
     thrown |-> NoResult,     \* what connectToTab threw into the operation
     result |-> NoResult,     \* what the call returns or throws
     reqs |-> {},             \* requests sent to the browser by this call
     wasConnected |-> FALSE]  \* the connected flag when the call started

\* No script is being followed.
NoEvaluation ==
    [op |-> "none", selectors |-> <<>>, given |-> {}, options |-> {}, doc |-> {},
     pc |-> "none", mode |-> "none", selectorsArray |-> <<>>,
     value |-> <<>>, returned |-> <<>>]

\* The two arrays of TIER_1_CAPABILITIES as the module creates them, and
\* no descriptor in a caller's hands.
FreshDescriptor ==
    [formats |-> TIER_1_CAPABILITIES.supportedImageFormats,
     limitations |-> TIER_1_CAPABILITIES.limitations,
     held |-> FALSE,
     flags |-> [f \in Flags |-> TIER_1_CAPABILITIES[f]]]

\* Neither a factory call nor a tool handler is running.
NoServer ==
    [role |-> "none",         \* "factory" or the name of the tool called
     pc |-> "none",           \* the provider call the body is at
     browserTools |-> FALSE,  \* BrowserLensServer.browserTools is set
     scrollType |-> "",       \* scroll_page: argument scrollType
     selector |-> FALSE,      \* scroll_page: a selector was given
     thrown |-> NoResult,     \* the error the body threw or caught
     outcome |-> "none"]      \* "content", "error" (a content response
                              \* describing the error), "threw", or
                              \* "provider" (the factory's return value)

Init ==
    /\ connected = FALSE
    /\ cdpClient = NULL
    /\ enabledDomains = {}
    /\ opened = 0
    /\ rootOpen = {}
    /\ heldEnabled = {}
    /\ evaluation = NoEvaluation
    /\ descriptor = FreshDescriptor
    /\ server = NoServer
    /\ call = [p \in Callers |-> Idle]

\* A fresh call record for operation o.
Begin(o, tabId, selectors) ==
    [Idle EXCEPT !.op = o, !.inner = o, !.tabId = tabId, !.selectors = selectors,
                 !.wasConnected = connected]

\* The body of c.inner returns or throws `outcome`.  Inside captureTab the
\* outcome goes to the awaiting captureTab, otherwise to the caller.
Finish(c, outcome) ==
    [c EXCEPT !.pc = IF c.op = "captureTab" /\ c.inner # "captureTab"
                     THEN "subret" ELSE "ret",
              !.result = outcome]

Sent(c, req) == [c EXCEPT !.reqs = @ \cup {req}]

\* Mutant: the connected check always passes.
assertConnectedSkipped == TRUE

\* assertConnected(): passes iff the connected flag is set.
assertConnected == connected

\* The error of assertConnected() and of captureTab's own guard: no cause.
NotConnected == BrowserConnectionError("")

\* -------------------------------------------------------------- connect()

EnableReq == [Page |-> "enable.Page", Runtime |-> "enable.Runtime", DOM |-> "enable.DOM"]

\* Mutant: enableDomain without the `enabledDomains.has(domain)` guard.
StartEnableUnguarded(c, i, enabled, client) ==
    IF client = NULL
    THEN Finish(c, BrowserConnectionError("TypeError"))
    ELSE Sent([c EXCEPT !.pc = "enabling", !.domain = i, !.target = client],
              EnableReq[Domains[i]])

\* enableDomain(Domains[i]) up to its first await, run by connect() with
\* the given enabled set and transport handle.
StartEnable(c, i, enabled, client) ==
    IF Domains[i] \in enabled
    THEN [c EXCEPT !.pc = "enabled", !.domain = i]
    ELSE IF client = NULL
    THEN Finish(c, BrowserConnectionError("TypeError"))
    ELSE Sent([c EXCEPT !.pc = "enabling", !.domain = i, !.target = client],
              EnableReq[Domains[i]])

\* Mutant: connect() without its early return.
NeverAlreadyConnected == FALSE

\* The guard of connect(): `if (this.connected) return`.
AlreadyConnected == connected

\* connect() up to the availability probe.
CallConnect(p) ==
    /\ call[p].pc = "idle"
    /\ LET c == Begin("connect", "", <<>>) IN
       call' = [call EXCEPT ![p] =
                  IF AlreadyConnected THEN Finish(c, Ok(""))
                  ELSE Sent([c EXCEPT !.pc = "probing"], "probe")]
    /\ UNCHANGED <<provider, browser>>

\* Mutant: connect() goes on whatever isAvailable() said.
AfterProbeIgnored(c, verdict) ==
    Sent([c EXCEPT !.available = IF verdict THEN "yes" ELSE "no",
                   !.pc = "opening"], "open")

\* connect() resumes with the verdict of isAvailable(): it throws an Error,
\* which its catch block wraps, or asks for the root transport.
AfterProbe(c, verdict) ==
    LET b == [c EXCEPT !.available = IF verdict THEN "yes" ELSE "no"] IN
    IF ~verdict
    THEN Finish(b, BrowserConnectionError("ChromeNotAvailable"))
    ELSE Sent([b EXCEPT !.pc = "opening"], "open")

\* isAvailable() called on its own, up to its fetch.
CallIsAvailable(p) ==
    /\ p \in OpCallers
    /\ call[p].pc = "idle"
    /\ call' = [call EXCEPT ![p] =
                  Sent([Begin("isAvailable", "", <<>>) EXCEPT !.pc = "probing"], "probe")]
    /\ UNCHANGED <<provider, browser>>

\* isAvailable() returns its verdict on what it met, to its caller or to
\* connect().
ProbeSettled(c, answer) ==
    IF c.op = "isAvailable"
    THEN Finish([c EXCEPT !.probe = answer],
                Ok(IF isAvailable(answer) THEN "true" ELSE "false"))
    ELSE AfterProbe(c, isAvailable(answer))

\* `await fetch(url)` of isAvailable() settles: after a success status the
\* call awaits response.json(), otherwise isAvailable() returns false.
ProbeResponse(p) ==
    /\ call[p].pc = "probing"
    /\ \E answer \in ProbeFetchAnswers :
         call' = [call EXCEPT ![p] =
                    IF answer = "success_status"
                    THEN [@ EXCEPT !.pc = "probed"]
                    ELSE ProbeSettled(@, answer)]
    /\ UNCHANGED <<provider, browser>>

\* `await response.json()` of isAvailable() settles.
ProbeBody(p) ==
    /\ call[p].pc = "probed"
    /\ \E answer \in ProbeBodyAnswers :
         call' = [call EXCEPT ![p] = ProbeSettled(@, answer)]
    /\ UNCHANGED <<provider, browser>>

\* CDP({port}) answers; on success the handle is stored and Page is enabled.
OpenResponse(p) ==
    /\ call[p].pc = "opening"
    /\ \/ /\ call' = [call EXCEPT ![p] = Finish(@, BrowserConnectionError("OpenFailed"))]
          /\ UNCHANGED <<provider, browser>>
       \/ /\ opened < MaxTransports
          /\ opened' = opened + 1
          /\ rootOpen' = rootOpen \cup {opened + 1}
          /\ cdpClient' = opened + 1
          /\ heldEnabled' = {}
          /\ call' = [call EXCEPT ![p] =
                         StartEnable([@ EXCEPT !.root = opened + 1], 1,
                                     enabledDomains, opened + 1)]
          /\ UNCHANGED <<connected, enabledDomains, aside>>

\* <domain>.enable() on the root transport answers.
EnableResponse(p) ==
    /\ call[p].pc = "enabling"
    /\ LET c == call[p]
           d == Domains[c.domain] IN
       \/ /\ c.target \in rootOpen
          /\ enabledDomains' = enabledDomains \cup {d}
          /\ heldEnabled' = IF c.target = cdpClient THEN heldEnabled \cup {d}
                                                     ELSE heldEnabled
          /\ call' = [call EXCEPT ![p].pc = "enabled"]
          /\ UNCHANGED <<connected, cdpClient, opened, rootOpen, aside>>
       \/ /\ call' = [call EXCEPT ![p] = Finish(c, BrowserConnectionError("EnableFailed"))]
          /\ UNCHANGED <<provider, browser>>

\* connect() resumes after `await this.enableDomain(...)`.
ConnectContinue(p) ==
    /\ call[p].pc = "enabled"
    /\ IF call[p].domain < Len(Domains)
       THEN /\ call' = [call EXCEPT ![p] =
                          StartEnable(@, @.domain + 1, enabledDomains, cdpClient)]
            /\ UNCHANGED <<provider, browser>>
       ELSE /\ connected' = TRUE
            /\ call' = [call EXCEPT ![p] = Finish(@, Ok(""))]
            /\ UNCHANGED <<cdpClient, enabledDomains, browser>>

\* ----------------------------------------------------------- disconnect()

\* The guard of disconnect(): `if (!this.connected) return`.
NothingToDisconnect == ~connected

\* The catch block of disconnect(): the error is logged, not rethrown.
CloseFailed(c) == Finish(c, Ok(""))

\* disconnect() up to `await this.cdpClient.close()`.
CallDisconnect(p) ==
    /\ call[p].pc = "idle"
    /\ LET c == Begin("disconnect", "", <<>>) IN
       IF NothingToDisconnect
       THEN /\ call' = [call EXCEPT ![p] = Finish(c, Ok(""))]
            /\ UNCHANGED <<provider, browser>>
       ELSE IF cdpClient # NULL
       THEN /\ call' = [call EXCEPT ![p] =
                          Sent([c EXCEPT !.pc = "closing", !.target = cdpClient], "close")]
            /\ UNCHANGED <<provider, browser>>
       ELSE /\ enabledDomains' = {}
            /\ connected' = FALSE
            /\ call' = [call EXCEPT ![p] = Finish(c, Ok(""))]
            /\ UNCHANGED <<cdpClient, browser>>

\* close() of the root transport answers; a failure is logged and swallowed.
CloseResponse(p) ==
    /\ call[p].pc = "closing"
    /\ \/ /\ rootOpen' = rootOpen \ {call[p].target}
          /\ cdpClient' = NULL
          /\ enabledDomains' = {}
          /\ connected' = FALSE
          /\ heldEnabled' = {}
          /\ UNCHANGED <<opened, aside>>
          /\ call' = [call EXCEPT ![p] = Finish(@, Ok(""))]
       \/ /\ UNCHANGED <<provider, browser>>
          /\ call' = [call EXCEPT ![p] = CloseFailed(@)]

\* The caller takes the outcome; it may then make another call.
Return(p) ==
    /\ call[p].pc = "ret"
    /\ call' = [call EXCEPT ![p] = Idle]
    /\ UNCHANGED <<provider, browser>>

\* ------------------------------------------------------------- listTabs()

\* How `await response.json()` of listTabs() settles: with a listing, or
\* with a rejection (a body that is not JSON).
ListAnswers == {[ok |-> TRUE, raw |-> l] : l \in Listings} \cup {[ok |-> FALSE, raw |-> <<>>]}

\* listTabs() up to its fetch.
StartListTabs(p) ==
    /\ call[p].pc = "idle"
    /\ LET c == Begin("listTabs", "", <<>>) IN
       call' = [call EXCEPT ![p] =
                  IF assertConnected
                  THEN Sent([c EXCEPT !.pc = "listing"], "list")
                  ELSE Finish(c, NotConnected)]
    /\ UNCHANGED <<provider, browser>>

CallListTabs(p) ==
    /\ p \in OpCallers
    /\ StartListTabs(p)

\* `await fetch(url)` of listTabs() settles: after a success status the
\* call awaits response.json(); a network error, a timeout or another
\* status is thrown and wrapped.
ListResponse(p) ==
    /\ call[p].pc = "listing"
    /\ call[p].inner = "listTabs"
    /\ \E ok \in BOOLEAN :
         call' = [call EXCEPT ![p] =
                    IF ok THEN [@ EXCEPT !.pc = "listed"]
                    ELSE Finish(@, BrowserConnectionError("FetchFailed"))]
    /\ UNCHANGED <<provider, browser>>

\* Mutant: listTabs() hands out the listing another call has just returned.
ListBodyShared(p) ==
    /\ call[p].pc = "listed"
    /\ call[p].inner = "listTabs"
    /\ \E answer \in ListAnswers :
         call' = [call EXCEPT ![p] =
                    IF answer.ok
                    THEN Finish([@ EXCEPT
                             !.raw = answer.raw,
                             !.tabs = IF \E q \in Callers \ {p} :
                                             call[q].result = Ok("tabs")
                                      THEN (CHOOSE t \in {call[q].tabs : q \in
                                              {r \in Callers \ {p} :
                                                 call[r].result = Ok("tabs")}} : TRUE)
                                      ELSE MapTabs(answer.raw)], Ok("tabs"))
                    ELSE Finish(@, BrowserConnectionError("BodyFailed"))]
    /\ UNCHANGED <<provider, browser>>

\* `await response.json()` of listTabs() settles: the page targets are
\* mapped and returned, a rejection is wrapped.
ListBody(p) ==
    /\ call[p].pc = "listed"
    /\ call[p].inner = "listTabs"
    /\ \E answer \in ListAnswers :
         call' = [call EXCEPT ![p] =
                    IF answer.ok
                    THEN Finish([@ EXCEPT !.raw = answer.raw,
                                          !.tabs = MapTabs(answer.raw)], Ok("tabs"))
                    ELSE Finish(@, BrowserConnectionError("BodyFailed"))]
    /\ UNCHANGED <<provider, browser>>

\* ------------------------------------------- operations on one tab

\* captureScreenshot, captureHTML, captureCSS, extractElements and
\* setActiveTab up to the fetch of findTabById -> listTabs.
StartTabOp(c, o) ==
    LET b == [c EXCEPT !.inner = o, !.tabClient = NULL, !.attachment = "none",
                       !.listed = "unset", !.thrown = NoResult] IN
    IF assertConnected
    THEN Sent([b EXCEPT !.pc = "finding"], "list")
    ELSE Finish(b, NotConnected)

\* A caller calls one of these operations.
BeginTabOp(p) ==
    /\ call[p].pc = "idle"
    /\ \E o \in FindOps, tabId \in TabIds, selectors \in SelectorLists :
         /\ o \notin {"captureCSS", "extractElements"} => selectors = <<>>
         /\ call' = [call EXCEPT ![p] = StartTabOp(Begin(o, tabId, selectors), o)]
    /\ UNCHANGED <<provider, browser>>

CallTabOp(p) ==
    /\ p \in OpCallers
    /\ BeginTabOp(p)

\* Mutant: captureCSS checks the list that sanitizeSelectors leaves.
CssSelectorsGivenSanitized(selectors) == Len(sanitizeSelectors(selectors)) # 0

\* captureCSS: `!options.selectors || options.selectors.length === 0` is false.
CssSelectorsGiven(selectors) == Len(selectors) # 0

\* extractElements: `sanitizedSelectors.length === 0` is false.
ExtractSelectorsValid(selectors) == Len(sanitizeSelectors(selectors)) # 0

\* The precondition an operation checks between findTabById and its try
\* block: TRUE when it passes.
ValidSelectors(o, selectors) ==
    CASE o = "captureCSS" -> CssSelectorsGiven(selectors)
      [] o = "extractElements" -> ExtractSelectorsValid(selectors)
      [] OTHER -> TRUE

ValidationError(o) ==
    IF o = "captureCSS"
    THEN PlainError("CSS capture requires at least one selector")
    ELSE PlainError("No valid selectors provided")

\* Mutant: the activation always names the first tab.
activateUrlFirst(tabId) == "/json/activate/A"

\* setActiveTab: the path of activateUrl.
activateUrl(tabId) == IF tabId = "A" THEN "/json/activate/A" ELSE "/json/activate/B"

\* Mutant: findTabById without the `if (!tab) throw`.
AfterFindUnchecked(c, tabs) ==
    IF ~ValidSelectors(c.inner, c.selectors)
    THEN Finish(c, ValidationError(c.inner))
    ELSE IF c.inner = "setActiveTab"
    THEN Sent([c EXCEPT !.pc = "activating"], activateUrl(c.tabId))
    ELSE Sent([c EXCEPT !.pc = "attaching"], "attach")

\* The operation resumes with the tabs of a successful listing.
AfterFind(c, tabs) ==
    IF ~HasTab(tabs, c.tabId)
    THEN Finish(c, TabNotFoundError(c.tabId))
    ELSE IF ~ValidSelectors(c.inner, c.selectors)
    THEN Finish(c, ValidationError(c.inner))
    ELSE IF c.inner = "setActiveTab"
    THEN Sent([c EXCEPT !.pc = "activating"], activateUrl(c.tabId))
    ELSE Sent([c EXCEPT !.pc = "attaching"], "attach")

\* Whether a fetched listing shows tabId as a target of type 'page'.
Shown(raw, tabId) ==
    IF \E i \in 1..Len(raw) : raw[i].id = tabId /\ raw[i].type = "page"
    THEN "present" ELSE "absent"

\* findTabById -> listTabs: `await fetch(url)` settles.
FindResponse(p) ==
    /\ call[p].pc = "finding"
    /\ \E ok \in BOOLEAN :
         call' = [call EXCEPT ![p] =
                    IF ok THEN [@ EXCEPT !.pc = "found"]
                    ELSE Finish(@, BrowserConnectionError("FetchFailed"))]
    /\ UNCHANGED <<provider, browser>>

\* findTabById -> listTabs: `await response.json()` settles and the
\* operation resumes with the tabs.
FindBody(p) ==
    /\ call[p].pc = "found"
    /\ \E answer \in ListAnswers :
         call' = [call EXCEPT ![p] =
                    IF answer.ok
                    THEN AfterFind([@ EXCEPT !.listed = Shown(answer.raw, call[p].tabId)],
                                   MapTabs(answer.raw))
                    ELSE Finish(@, BrowserConnectionError("BodyFailed"))]
    /\ UNCHANGED <<provider, browser>>

\* Mutant: the catch block rethrows what connectToTab threw.
CaughtUnwrapped(c) == TabNotFoundError(c.tabId)

\* The catch block of a capture operation wraps whatever was thrown.
Caught(c) == CaptureError(c.tabId, CaptureKind[c.inner])

\* The finally block: close the attachment if tabClient was assigned.
Finally(c, outcome) ==
    IF c.tabClient # NULL
    THEN Sent([c EXCEPT !.pc = "tabClosing", !.result = outcome,
                        !.attachment = "closeCalled"], "tabClose")
    ELSE Finish(c, outcome)

\* The catch block of connectToTab: whatever failed, CDP({port, tab}) or an
\* enable on the attachment, the operation is thrown a TabNotFoundError.
connectToTabFailed(c) == [c EXCEPT !.thrown = TabNotFoundError(c.tabId)]

\* connectToTab: CDP({port, tab}) answers.
AttachResponse(p) ==
    /\ call[p].pc = "attaching"
    /\ \E ok \in BOOLEAN :
         call' = [call EXCEPT ![p] =
                    IF ok
                    THEN Sent([@ EXCEPT !.pc = "tabEnabling", !.attachment = "open",
                                        !.domain = 1],
                              "tabEnable")
                    ELSE Finally(connectToTabFailed(@), Caught(@))]
    /\ UNCHANGED <<provider, browser>>

\* The commands a capture operation sends on its attachment, and answers.
CommandAnswers(o) ==
    IF o = "captureScreenshot"
    THEN {"value", "rejected"}
    ELSE {"value", "rejected", "exception"}

\* connectToTab: the enable of Domains[domain] on the attachment settles.
\* Page.enable, Runtime.enable and DOM.enable are awaited one after the
\* other; the first rejection is caught by connectToTab, and after the
\* third success the operation assigns tabClient and sends its command.
TabEnableResponse(p) ==
    /\ call[p].pc = "tabEnabling"
    /\ \E ok \in BOOLEAN :
         call' = [call EXCEPT ![p] =
                    IF ~ok
                    THEN Finally(connectToTabFailed([@ EXCEPT !.domain = 0]),
                                 Caught(@))
                    ELSE IF @.domain < Len(Domains)
                    THEN [@ EXCEPT !.domain = @ + 1]
                    ELSE Sent([@ EXCEPT !.pc = "command", !.tabClient = 1,
                                        !.domain = 0], "command")]
    /\ UNCHANGED <<provider, browser>>

\* The value the command answers with.  The script of captureCSS over an
\* empty selector list pushes nothing and returns [].join('\n\n'), the
\* empty string, which `options.prettify && cssContent` leaves alone.
CommandValue(c) ==
    IF c.inner = "captureCSS" /\ sanitizeSelectors(c.selectors) = <<>>
    THEN "" ELSE "value"

\* Page.captureScreenshot or Runtime.evaluate answers.
CommandResponse(p) ==
    /\ call[p].pc = "command"
    /\ \E answer \in CommandAnswers(call[p].inner) :
         call' = [call EXCEPT ![p] =
                    IF answer = "value"
                    THEN Finally(@, Ok(CommandValue(@)))
                    ELSE Finally(@, Caught(@))]
    /\ UNCHANGED <<provider, browser>>

\* Mutant: the attachment handle is a field of the provider, so the close
\* of one operation closes the attachment another operation opened last.
TabCloseResponseShared(p) ==
    /\ call[p].pc = "tabClosing"
    /\ \E ok \in BOOLEAN :
         call' = [q \in Callers |->
                    IF q = p
                    THEN Finish([call[p] EXCEPT !.attachment = IF ok THEN "closed" ELSE @],
                                call[p].result)
                    ELSE IF call[q].attachment = "open"
                    THEN [call[q] EXCEPT !.attachment = "closed"]
                    ELSE call[q]]
    /\ UNCHANGED <<provider, browser>>

\* Mutant: a failure of tabClient.close() leaves the finally block.
TabCloseResponseThrowing(p) ==
    /\ call[p].pc = "tabClosing"
    /\ \E ok \in BOOLEAN :
         call' = [call EXCEPT ![p] =
                    Finish([@ EXCEPT !.attachment = IF ok THEN "closed" ELSE @],
                           IF ok THEN @.result ELSE PlainError("CloseFailed"))]
    /\ UNCHANGED <<provider, browser>>

\* tabClient.close() answers; a failure is logged and swallowed.
TabCloseResponse(p) ==
    /\ call[p].pc = "tabClosing"
    /\ \E ok \in BOOLEAN :
         call' = [call EXCEPT ![p] =
                    Finish([@ EXCEPT !.attachment = IF ok THEN "closed" ELSE @],
                           @.result)]
    /\ UNCHANGED <<provider, browser>>

\* setActiveTab: `await fetch(activateUrl, {method: "POST"})` settles;
\* after a success status the call awaits response.text().
ActivateResponse(p) ==
    /\ call[p].pc = "activating"
    /\ \E ok \in BOOLEAN :
         call' = [call EXCEPT ![p] =
                    IF ok THEN [@ EXCEPT !.pc = "activated"]
                    ELSE Finish(@, BrowserConnectionError("ActivateFailed"))]
    /\ UNCHANGED <<provider, browser>>

\* setActiveTab: `await response.text()` settles.
ActivateBody(p) ==
    /\ call[p].pc = "activated"
    /\ \E ok \in BOOLEAN :
         call' = [call EXCEPT ![p] =
                    IF ok THEN Finish(@, Ok(""))
                    ELSE Finish(@, BrowserConnectionError("ActivateFailed"))]
    /\ UNCHANGED <<provider, browser>>

\* ------------------------------------------------------------ captureTab()

\* The requested sub-captures in the order captureTab runs them.
Requested(want) == SelectSeq(SubCaptures, LAMBDA o : o \in want)

\* captureTab runs the next requested sub-capture or returns the result.
StartNext(c) ==
    IF c.pending = <<>>
    THEN Finish([c EXCEPT !.inner = "captureTab"], Ok("result"))
    ELSE StartTabOp([c EXCEPT !.pending = Tail(@)], Head(c.pending))

\* captureTab resumes with the tabs of a successful listing.
AfterList(c, tabs) ==
    IF ~HasTab(tabs, c.tabId)
    THEN Finish(c, TabNotFoundError(c.tabId))
    ELSE StartNext([c EXCEPT !.tabInfo = FindTab(tabs, c.tabId)])

\* captureTab() up to the fetch of its listTabs().
CallCaptureTab(p) ==
    /\ p \in OpCallers
    /\ call[p].pc = "idle"
    /\ \E tabId \in TabIds, want \in WantSets, selectors \in SelectorLists :
         /\ "captureCSS" \notin want => selectors = <<>>
         /\ selectors \in {<<>>, <<SelDiv>>}
         /\ LET c == [Begin("captureTab", tabId, selectors) EXCEPT
                        !.want = want, !.pending = Requested(want)] IN
            call' = [call EXCEPT ![p] =
                       IF ~connected THEN Finish(c, NotConnected)
                       ELSE IF assertConnected
                       THEN Sent([c EXCEPT !.pc = "listing"], "list")
                       ELSE Finish(c, NotConnected)]
    /\ UNCHANGED <<provider, browser>>

\* captureTab -> listTabs: `await fetch(url)` settles.
CaptureTabListResponse(p) ==
    /\ call[p].pc = "listing"
    /\ call[p].inner = "captureTab"
    /\ \E ok \in BOOLEAN :
         call' = [call EXCEPT ![p] =
                    IF ok THEN [@ EXCEPT !.pc = "listed"]
                    ELSE Finish(@, BrowserConnectionError("FetchFailed"))]
    /\ UNCHANGED <<provider, browser>>

\* captureTab -> listTabs: `await response.json()` settles and captureTab
\* resumes with the tabs.
CaptureTabListBody(p) ==
    /\ call[p].pc = "listed"
    /\ call[p].inner = "captureTab"
    /\ \E answer \in ListAnswers :
         call' = [call EXCEPT ![p] =
                    IF answer.ok
                    THEN AfterList([@ EXCEPT !.listed = Shown(answer.raw, call[p].tabId)],
                                   MapTabs(answer.raw))
                    ELSE Finish(@, BrowserConnectionError("BodyFailed"))]
    /\ UNCHANGED <<provider, browser>>

\* Mutant: captureTab skips a failed sub-capture and goes on.
SubReturnPartial(p) ==
    /\ call[p].pc = "subret"
    /\ call' = [call EXCEPT ![p] =
                  IF @.result.kind = "ok"
                  THEN StartNext([@ EXCEPT !.captured = @ \cup {call[p].inner},
                                           !.result = NoResult])
                  ELSE StartNext([@ EXCEPT !.result = NoResult])]
    /\ UNCHANGED <<provider, browser>>

\* captureTab resumes after a sub-capture: its value is stored on the
\* result, its error is wrapped and aborts the compound call.
SubReturn(p) ==
    /\ call[p].pc = "subret"
    /\ call' = [call EXCEPT ![p] =
                  IF @.result.kind = "ok"
                  THEN StartNext([@ EXCEPT !.captured = @ \cup {call[p].inner},
                                           !.result = NoResult])
                  ELSE [@ EXCEPT !.pc = "ret", !.inner = "captureTab",
                                 !.result = CaptureError(call[p].tabId, "complete")]]
    /\ UNCHANGED <<provider, browser>>

\* ------------------------------------------------ in-page evaluation
\*
\* What captureHTML, captureCSS and extractElements send with
\* Runtime.evaluate, what the page computes from it, and what the operation
\* makes of the value.  Strings are sequences of characters; HTML text is a
\* sequence of tag tokens; the document is a tree of elements.

\* Math.min
MathMin(a, b) == IF a <= b THEN a ELSE b

\* extractElements inspects at most this many matches of a selector.
MaxElements == 10

\* Number of <div> elements of the largest document.
ManyDivs == 11

TagHtml == <<"h", "t", "m", "l">>
TagHead == <<"h", "e", "a", "d">>
TagBody == <<"b", "o", "d", "y">>
TagScript == <<"s", "c", "r", "i", "p", "t">>
TagStyle == <<"s", "t", "y", "l", "e">>
TagLink == <<"l", "i", "n", "k">>
TagDiv == <<"d", "i", "v">>
TagP == <<"p">>
TagForm == <<"f", "o", "r", "m">>
TagInput == <<"i", "n", "p", "u", "t">>

\* An element: tag name, id attribute (<<>> if none), whether it has an
\* inline style attribute, its rel attribute ("" if none), whether a form
\* control named "tagName" shadows its tagName property, and its children.
Element(tag, id, style, rel, shadowed, kids) ==
    [tag |-> tag, id |-> id, style |-> style, rel |-> rel,
     shadowed |-> shadowed, kids |-> kids]

Leaf(tag) == Element(tag, <<>>, FALSE, "", FALSE, <<>>)

Parent(tag, kids) == Element(tag, <<>>, FALSE, "", FALSE, kids)

\* A page with scripts, a style sheet, two links and a styled <div id=a>.
DocPlain ==
    Parent(TagHtml,
      << Parent(TagHead,
           << Leaf(TagScript), Leaf(TagStyle),
              Element(TagLink, <<>>, FALSE, "stylesheet", FALSE, <<>>),
              Element(TagLink, <<>>, FALSE, "icon", FALSE, <<>>) >>),
         Parent(TagBody,
           << Element(TagDiv, <<"a">>, TRUE, "", FALSE, <<Leaf(TagScript)>>),
              Leaf(TagP) >>) >>)

\* A page whose root element carries an inline style.
DocRootStyle ==
    Element(TagHtml, <<>>, TRUE, "", FALSE,
      << Leaf(TagHead), Parent(TagBody, <<Leaf(TagDiv)>>) >>)

\* A page with three forms; the second has a control named "tagName".
DocForms ==
    Parent(TagHtml,
      << Leaf(TagHead),
         Parent(TagBody,
           << Leaf(TagForm),
              Element(TagForm, <<>>, FALSE, "", TRUE, <<Leaf(TagInput)>>),
              Leaf(TagForm) >>) >>)

\* A page with more <div> elements than extractElements inspects.
DocMany ==
    Parent(TagHtml,
      << Leaf(TagHead),
         Parent(TagBody, [i \in 1..ManyDivs |-> Leaf(TagDiv)] \o <<Leaf(TagP)>>) >>)

\* A text node holding one character of white space.
Text(ch) == Leaf(<<ch>>)

IsText(e) == Len(e.tag) = 1 /\ e.tag[1] \in Whitespace

\* A page written on several lines: line breaks and a space between the
\* elements of its body.
DocSpaced ==
    Parent(TagHtml,
      << Leaf(TagHead),
         Parent(TagBody,
           << Parent(TagDiv, <<Text("\n"), Text("\n")>>), Text("\n"), Text("\n"),
              Leaf(TagP), Text(" "), Text("\n"), Text(" "), Leaf(TagP) >>) >>)

Documents == {DocPlain, DocRootStyle, DocForms, DocMany, DocSpaced}

\* The computed color of the root element without a style attribute, and
\* the color the style attributes of the documents give.
Black == "rgb(0, 0, 0)"
Red == "rgb(255, 0, 0)"

\* The elements below `els` in document order, each with the parents the
\* includeInherited loop of captureCSS visits (parentElement up to, and
\* without, document.body), given as their `shadowed` flags, and with its
\* color: that of its style attribute, else the color of its parent.
RECURSIVE Walk(_, _, _)
Walk(els, anc, color) ==
    IF Len(els) = 0 THEN <<>>
    ELSE LET e == Head(els)
             below == IF e.tag = TagBody THEN <<>> ELSE <<e.shadowed>> \o anc
             own == IF e.style THEN Red ELSE color IN
         IF IsText(e) THEN Walk(Tail(els), anc, color)
         ELSE <<[el |-> e, anc |-> anc, color |-> own]>>
              \o Walk(e.kids, below, own) \o Walk(Tail(els), anc, color)

\* The selectors the page's engine understands here: a type selector, an id
\* selector; every other selector of the vocabulary is a syntax error.
SelectorKind(selector) ==
    IF Len(selector) >= 1 /\ \A i \in 1..Len(selector) : selector[i] \in Lower
    THEN "type"
    ELSE IF /\ Len(selector) >= 2
            /\ selector[1] = "#"
            /\ \A i \in 2..Len(selector) : selector[i] \in Lower
    THEN "id"
    ELSE "invalid"

\* querySelectorAll(selector) throws a SyntaxError.
SelectorThrows(selector) == SelectorKind(selector) = "invalid"

SelectorMatches(selector, e) ==
    CASE SelectorKind(selector) = "type" -> e.tag = selector
      [] SelectorKind(selector) = "id" -> e.id = Tail(selector)
      [] OTHER -> FALSE

\* document.querySelectorAll(selector) for a selector that parses.
querySelectorAll(doc, selector) ==
    SelectSeq(Walk(<<doc>>, <<>>, Black), LAMBDA n : SelectorMatches(selector, n.el))

\* A character is a UTF-16 code unit: the printable ASCII characters but
\* the grave accent, and "\t", "\n", "\f", "\r", are written as they are,
\* every other code unit by its code point, "U+" and four hexadecimal
\* digits.
HexUpper == <<"0", "1", "2", "3", "4", "5", "6", "7", "8", "9",
              "A", "B", "C", "D", "E", "F">>
HexLower == <<"0", "1", "2", "3", "4", "5", "6", "7", "8", "9",
              "a", "b", "c", "d", "e", "f">>

\* The code units 32..126.
Ascii ==
  <<
     " ", "!", "\"", "#", "$", "%", "&", "'", "(", ")", "*", "+",
     ",", "-", ".", "/", "0", "1", "2", "3", "4", "5", "6", "7",
     "8", "9", ":", ";", "<", "=", ">", "?", "@", "A", "B", "C",
     "D", "E", "F", "G", "H", "I", "J", "K", "L", "M", "N", "O",
     "P", "Q", "R", "S", "T", "U", "V", "W", "X", "Y", "Z", "[",
     "\\", "]", "^", "_", "U+0060", "a", "b", "c", "d", "e", "f", "g",
     "h", "i", "j", "k", "l", "m", "n", "o", "p", "q", "r", "s",
     "t", "u", "v", "w", "x", "y", "z", "{", "|", "}", "~"
  >>

Hex4(n, digits) ==
    << digits[((n \div 4096) % 16) + 1], digits[((n \div 256) % 16) + 1],
       digits[((n \div 16) % 16) + 1], digits[(n % 16) + 1] >>

\* String.fromCharCode(n)
CodeUnit(n) ==
    IF n \in 32..126 THEN Ascii[n - 31]
    ELSE IF n = 9 THEN "\t"
    ELSE IF n = 10 THEN "\n"
    ELSE IF n = 12 THEN "\f"
    ELSE IF n = 13 THEN "\r"
    ELSE LET h == Hex4(n, HexUpper) IN "U+" \o h[1] \o h[2] \o h[3] \o h[4]

\* The code units below U+0020, and the two halves of a surrogate pair.
ControlChars == {CodeUnit(n) : n \in 0..31}
HighSurrogates == {CodeUnit(n) : n \in 55296..56319}
LowSurrogates == {CodeUnit(n) : n \in 56320..57343}

\* charCodeAt of a control character or a surrogate.
EscapedCode(ch) ==
    IF ch \in ControlChars THEN CHOOSE n \in 0..31 : CodeUnit(n) = ch
    ELSE CHOOSE n \in 55296..57343 : CodeUnit(n) = ch

\* The characters JSON.stringify writes with a two-character escape.
ShortEscapes ==
    [ch \in {"\"", "\\", CodeUnit(8), "\t", "\n", "\f", "\r"} |->
        CASE ch = "\"" -> "\""
          [] ch = "\\" -> "\\"
          [] ch = "\t" -> "t"
          [] ch = "\n" -> "n"
          [] ch = "\f" -> "f"
          [] ch = "\r" -> "r"
          [] OTHER -> "b"]

\* JSON.stringify of one character of a string that is not half of a
\* surrogate pair: the two-character escapes, \uXXXX in lower case for the
\* other control characters and for a lone surrogate, and the character
\* itself otherwise.
EscapeChar(ch) ==
    IF ch \in DOMAIN ShortEscapes THEN <<"\\", ShortEscapes[ch]>>
    ELSE IF ch \in ControlChars \cup HighSurrogates \cup LowSurrogates
    THEN <<"\\", "u">> \o Hex4(EscapedCode(ch), HexLower)
    ELSE <<ch>>

\* A high surrogate followed by a low surrogate is one code point and is
\* copied.
RECURSIVE EscapeString(_)
EscapeString(str) ==
    IF Len(str) = 0 THEN <<>>
    ELSE IF Len(str) >= 2 /\ str[1] \in HighSurrogates /\ str[2] \in LowSurrogates
    THEN <<str[1], str[2]>> \o EscapeString(Tail(Tail(str)))
    ELSE EscapeChar(Head(str)) \o EscapeString(Tail(str))

StringLiteral(str) == <<"\"">> \o EscapeString(str) \o <<"\"">>

RECURSIVE ArrayItems(_)
ArrayItems(list) ==
    IF Len(list) = 0 THEN <<>>
    ELSE IF Len(list) = 1 THEN StringLiteral(list[1])
    ELSE StringLiteral(Head(list)) \o <<",">> \o ArrayItems(Tail(list))

\* JSON.stringify(<array of strings>): the text put into the script.
JSONStringify(list) == <<"[">> \o ArrayItems(list) \o <<"]">>

\* The character a single-character escape \<ch> of a string literal
\* stands for.
UnescapeChar(ch) ==
    CASE ch = "n" -> "\n"
      [] ch = "t" -> "\t"
      [] ch = "r" -> "\r"
      [] ch = "f" -> "\f"
      [] ch = "b" -> CodeUnit(8)
      [] ch = "v" -> CodeUnit(11)
      [] ch = "0" -> CodeUnit(0)
      [] OTHER -> ch

\* The value of a hexadecimal digit, -1 for any other character.
HexValue(ch) ==
    IF \E k \in 1..16 : HexLower[k] = ch
    THEN (CHOOSE k \in 1..16 : HexLower[k] = ch) - 1
    ELSE IF \E k \in 11..16 : HexUpper[k] = ch
    THEN (CHOOSE k \in 11..16 : HexUpper[k] = ch) - 1
    ELSE -1

IsHexAt(text, i) == i <= Len(text) /\ HexValue(text[i]) >= 0

IsOctalAt(text, i) == i <= Len(text) /\ HexValue(text[i]) \in 0..7

\* The code units of a code point.
CodePoint(v) ==
    IF v < 65536 THEN <<CodeUnit(v)>>
    ELSE << CodeUnit(55296 + ((v - 65536) \div 1024)),
            CodeUnit(56320 + ((v - 65536) % 1024)) >>

\* What an escape of a string literal stands for and where the text goes on.
Escape(chars, next) == [chars |-> chars, next |-> next]

\* An escape the page cannot read: the script is a SyntaxError.
BadEscape == Escape(<<>>, 0)

\* The digits of \u{...} from position i on, `v` being their value so far.
RECURSIVE ReadCodePoint(_, _, _, _)
ReadCodePoint(text, i, v, digits) ==
    IF i > Len(text) \/ v > 1114111 THEN BadEscape
    ELSE IF text[i] = "}"
    THEN (IF digits = 0 THEN BadEscape ELSE Escape(CodePoint(v), i + 1))
    ELSE IF HexValue(text[i]) < 0 THEN BadEscape
    ELSE ReadCodePoint(text, i + 1, 16 * v + HexValue(text[i]), digits + 1)

\* The escape sequence of a string literal of a script that is not in strict
\* mode, text[i] being its backslash.
ReadEscape(text, i) ==
    IF i + 1 > Len(text) THEN BadEscape
    ELSE LET ch == text[i + 1] IN
    IF ch = "x"
    THEN (IF IsHexAt(text, i + 2) /\ IsHexAt(text, i + 3)
          THEN Escape(<<CodeUnit(16 * HexValue(text[i + 2]) + HexValue(text[i + 3]))>>,
                      i + 4)
          ELSE BadEscape)
    ELSE IF ch = "u"
    THEN (IF i + 2 <= Len(text) /\ text[i + 2] = "{"
          THEN ReadCodePoint(text, i + 3, 0, 0)
          ELSE IF \A k \in 2..5 : IsHexAt(text, i + k)
          THEN Escape(<<CodeUnit(4096 * HexValue(text[i + 2]) + 256 * HexValue(text[i + 3])
                                 + 16 * HexValue(text[i + 4]) + HexValue(text[i + 5]))>>,
                      i + 6)
          ELSE BadEscape)
    ELSE IF IsOctalAt(text, i + 1)
    THEN LET d1 == HexValue(ch)
             two == IsOctalAt(text, i + 2)
             three == two /\ d1 <= 3 /\ IsOctalAt(text, i + 3) IN
         IF three
         THEN Escape(<<CodeUnit(64 * d1 + 8 * HexValue(text[i + 2])
                                + HexValue(text[i + 3]))>>, i + 4)
         ELSE IF two
         THEN Escape(<<CodeUnit(8 * d1 + HexValue(text[i + 2]))>>, i + 3)
         ELSE Escape(<<CodeUnit(d1)>>, i + 2)
    ELSE IF ch = "\r" /\ i + 2 <= Len(text) /\ text[i + 2] = "\n"
    THEN Escape(<<>>, i + 3)
    ELSE IF ch \in LineTerminators
    THEN Escape(<<>>, i + 2)
    ELSE Escape(<<UnescapeChar(ch)>>, i + 2)

\* What ReadArray gives for a text the page cannot parse.
SyntaxError == <<<<"SyntaxError">>>>

\* The array the page reads from `const selectors = <text>;`: the string
\* literals of the text from position i on, `cur` being the literal in
\* progress.
RECURSIVE ReadArray(_, _, _, _, _)
ReadArray(text, i, inString, cur, acc) ==
    IF i > Len(text) THEN (IF inString THEN SyntaxError ELSE acc)
    ELSE IF ~inString
    THEN ReadArray(text, i + 1, text[i] = "\"", <<>>, acc)
    ELSE IF text[i] = "\\"
    THEN LET escape == ReadEscape(text, i) IN
         IF escape = BadEscape THEN SyntaxError
         ELSE ReadArray(text, escape.next, TRUE, cur \o escape.chars, acc)
    ELSE IF text[i] \in {"\n", "\r"}
    THEN SyntaxError
    ELSE IF text[i] = "\""
    THEN ReadArray(text, i + 1, FALSE, <<>>, Append(acc, cur))
    ELSE ReadArray(text, i + 1, TRUE, Append(cur, text[i]), acc)

\* The selectors the script iterates over.
EmbeddedSelectors(text) == ReadArray(text, 1, FALSE, <<>>, <<>>)

\* Array.prototype.join over strings given as sequences.
RECURSIVE JoinWith(_, _)
JoinWith(list, sep) ==
    IF Len(list) = 0 THEN <<>>
    ELSE IF Len(list) = 1 THEN list[1]
    ELSE list[1] \o sep \o JoinWith(Tail(list), sep)

\* ---- captureHTML

\* HTML text: start tags with the attributes of the element, end tags,
\* the doctype and line breaks.
Token(t, e) == [t |-> t, tag |-> e.tag, id |-> e.id, style |-> e.style, rel |-> e.rel]

LineBreak == [t |-> "text", tag |-> <<"\n">>, id |-> <<>>, style |-> FALSE, rel |-> ""]

Doctype == [t |-> "doctype", tag |-> TagHtml, id |-> <<>>, style |-> FALSE, rel |-> ""]

\* Elements serialized without an end tag.
VoidTags == {TagLink, TagInput}

RECURSIVE SerializeAll(_)
SerializeAll(els) ==
    IF Len(els) = 0 THEN <<>>
    ELSE LET e == Head(els) IN
         IF IsText(e) THEN <<Token("text", e)>> \o SerializeAll(Tail(els))
         ELSE <<Token("open", e)>> \o SerializeAll(e.kids)
                 \o (IF e.tag \in VoidTags THEN <<>> ELSE <<Token("close", e)>>)
                 \o SerializeAll(Tail(els))

\* element.outerHTML
outerHTML(e) == SerializeAll(<<e>>)

\* The three extraction modes of captureHTML, in priority order.
HtmlModeFlagsFirst(selectors, options) ==
    IF ~options.includeScripts \/ ~options.includeStyles THEN "strip"
    ELSE IF Len(selectors) > 0 THEN "selectors"
    ELSE "verbatim"

HtmlMode(selectors, options) ==
    IF Len(selectors) > 0 THEN "selectors"
    ELSE IF ~options.includeScripts \/ ~options.includeStyles THEN "strip"
    ELSE "verbatim"

\* Mode "selectors": outerHTML of every match of every selector; a selector
\* that throws is skipped.
RECURSIVE SelectedHTML(_, _)
SelectedHTML(doc, selectors) ==
    IF Len(selectors) = 0 THEN <<>>
    ELSE (IF SelectorThrows(Head(selectors)) THEN <<>>
          ELSE LET nodes == querySelectorAll(doc, Head(selectors)) IN
               [i \in 1..Len(nodes) |-> outerHTML(nodes[i].el)])
         \o SelectedHTML(doc, Tail(selectors))

\* Mode "strip", on the descendants of the clone: script elements removed
\* unless includeScripts; style elements and link[rel="stylesheet"] removed
\* and style attributes dropped unless includeStyles.
RECURSIVE StripAll(_, _)
StripAll(els, options) ==
    IF Len(els) = 0 THEN <<>>
    ELSE LET e == Head(els) IN
         IF \/ ~options.includeScripts /\ e.tag = TagScript
            \/ ~options.includeStyles /\ e.tag = TagStyle
            \/ ~options.includeStyles /\ e.tag = TagLink /\ e.rel = "stylesheet"
         THEN StripAll(Tail(els), options)
         ELSE <<[e EXCEPT !.style = IF options.includeStyles THEN @ ELSE FALSE,
                          !.kids = StripAll(@, options)]>>
              \o StripAll(Tail(els), options)

\* clone.querySelectorAll(...) reaches the descendants of the clone only.
StrippedClone(doc, options) == [doc EXCEPT !.kids = StripAll(@, options)]

\* The value of htmlExpression in the page.
EvaluateHTML(mode, doc, selectors, options) ==
    CASE mode = "selectors" -> JoinWith(SelectedHTML(doc, selectors), <<LineBreak>>)
      [] mode = "strip" -> <<Doctype, LineBreak>> \o outerHTML(StrippedClone(doc, options))
      [] OTHER -> outerHTML(doc)

IsTag(token) == token.t \in {"open", "close", "doctype"}

\* .replace(/></g, ">\n<"): a line break between two adjacent tags.
RECURSIVE BreakBetweenTags(_)
BreakBetweenTags(html) ==
    IF Len(html) <= 1 THEN html
    ELSE <<html[1]>>
         \o (IF IsTag(html[1]) /\ IsTag(html[2]) THEN <<LineBreak>> ELSE <<>>)
         \o BreakBetweenTags(Tail(html))

\* \s and a line terminator in the HTML text.
IsSpaceAt(html, i) ==
    html[i].t = "text" /\ Len(html[i].tag) = 1 /\ html[i].tag[1] \in Whitespace

IsLineEndAt(html, i) ==
    html[i].t = "text" /\ Len(html[i].tag) = 1 /\ html[i].tag[1] \in LineTerminators

\* The last position of the run of white space that starts at i.
RECURSIVE SpaceRunEnd(_, _)
SpaceRunEnd(html, i) ==
    IF i < Len(html) /\ IsSpaceAt(html, i + 1) THEN SpaceRunEnd(html, i + 1) ELSE i

\* .replace(/^\s+|\s+$/gm, ""), from position i on: the white space at the
\* start of a line goes as far as it reaches, white space elsewhere goes up
\* to the last position of its run that is the end of a line.
RECURSIVE TrimLines(_, _)
TrimLines(html, i) ==
    IF i > Len(html) THEN <<>>
    ELSE IF ~IsSpaceAt(html, i) THEN <<html[i]>> \o TrimLines(html, i + 1)
    ELSE LET j == SpaceRunEnd(html, i)
             ends == {k \in i..j : k = Len(html) \/ IsLineEndAt(html, k + 1)} IN
         IF i = 1 \/ IsLineEndAt(html, i - 1)
         THEN TrimLines(html, j + 1)
         ELSE IF ends # {}
         THEN TrimLines(html, (CHOOSE k \in ends : \A m \in ends : m <= k) + 1)
         ELSE <<html[i]>> \o TrimLines(html, i + 1)

\* What captureHTML returns for the evaluated value.
ReturnHTML(value, options) ==
    IF options.prettify /\ Len(value) > 0
    THEN TrimLines(BreakBetweenTags(value), 1)
    ELSE value

\* ---- captureCSS

\* Elements a user agent does not display.
HiddenTags == {TagHead, TagScript, TagStyle, TagLink}

\* window.getComputedStyle(element) for a node of Walk: property and value,
\* with the display and the margin of the user agent's style sheet.
ComputedStyle(n) ==
    {[property |-> "display",
      value |-> IF n.el.tag \in HiddenTags THEN "none"
                ELSE IF n.el.tag = TagInput THEN "inline-block"
                ELSE "block"],
     [property |-> "margin-top",
      value |-> IF n.el.tag = TagBody THEN "8px"
                ELSE IF n.el.tag = TagP THEN "16px"
                ELSE "0px"],
     [property |-> "color", value |-> n.color]}

\* The values the basic extraction leaves out.
Uninteresting == {"auto", "normal", "none", "0px", "transparent", "rgba(0, 0, 0, 0)"}

\* The properties pushed to `rules` for the node.
StyleRules(n, options) ==
    {d.property : d \in {d \in ComputedStyle(n) :
        /\ d.value \notin {"", "initial", "inherit"}
        /\ options.includeComputed \/ d.value \notin Uninteresting}}

CssToken(kind, selector, tag, props, inherited) ==
    [kind |-> kind, selector |-> selector, tag |-> tag, props |-> props,
     inherited |-> inherited, pretty |-> FALSE]

\* '\n\n' between two blocks.
BlockSeparator == CssToken("separator", <<>>, <<>>, {}, 0)

\* Mutant: a selector without matches ends the script's loop body without
\* a block.
CssRuleSilentMiss(doc, selector, options) ==
    IF SelectorThrows(selector)
    THEN <<CssToken("error", selector, <<>>, {}, 0)>>
    ELSE LET nodes == querySelectorAll(doc, selector) IN
         IF Len(nodes) = 0
         THEN <<>>
         ELSE <<CssToken("rules", selector, nodes[1].el.tag,
                         StyleRules(nodes[1], options), 0)>>

\* What the script pushes to cssRules for one selector: a comment for a
\* miss, a block built from the first match, a comment for an exception
\* (querySelectorAll, or parent.tagName.toLowerCase() on a shadowed parent).
CssRule(doc, selector, options) ==
    IF SelectorThrows(selector)
    THEN <<CssToken("error", selector, <<>>, {}, 0)>>
    ELSE LET nodes == querySelectorAll(doc, selector) IN
         IF Len(nodes) = 0
         THEN <<CssToken("miss", selector, <<>>, {}, 0)>>
         ELSE LET n == nodes[1]
                  props == StyleRules(n, options)
                  inherited == IF options.includeInherited THEN Len(n.anc) ELSE 0 IN
              IF options.includeInherited /\ \E i \in 1..Len(n.anc) : n.anc[i]
              THEN <<CssToken("error", selector, <<>>, {}, 0)>>
              ELSE <<CssToken(IF props # {} \/ inherited > 0 THEN "rules" ELSE "empty",
                              selector, n.el.tag, props, inherited)>>

\* The value of cssExpression in the page: cssRules.join('\n\n').
EvaluateCSS(doc, selectors, options) ==
    JoinWith([k \in 1..Len(selectors) |-> CssRule(doc, selectors[k], options)],
             <<BlockSeparator>>)

\* What captureCSS returns: the prettify replacements rewrite the white
\* space inside the blocks with braces.
ReturnCSS(value, options) ==
    IF options.prettify /\ Len(value) > 0
    THEN [k \in 1..Len(value) |->
            IF value[k].kind \in {"rules", "empty"}
            THEN [value[k] EXCEPT !.pretty = TRUE] ELSE value[k]]
    ELSE value

\* ---- extractElements

\* An entry of elementsInfo; `from` is the position of its selector in the
\* embedded list, nth the i + 1 of `selector:nth-child(i + 1)` (0 when the
\* selector is echoed as it is).
ElementInfo(from, selector, nth, tagName, error) ==
    [from |-> from, selector |-> selector, nth |-> nth, tagName |-> tagName,
     error |-> error]

ErrorMarker(from, selector) == ElementInfo(from, selector, 0, <<>>, TRUE)

\* The for loop over the first maxElements matches, inside the try block:
\* an exception (element.tagName.toLowerCase() on a shadowed element) ends
\* the loop with an error marker after the entries already pushed.
RECURSIVE InspectFrom(_, _, _, _, _)
InspectFrom(nodes, i, maxElements, from, selector) ==
    IF i > maxElements THEN <<>>
    ELSE IF nodes[i].el.shadowed THEN <<ErrorMarker(from, selector)>>
    ELSE <<ElementInfo(from, selector, IF Len(nodes) = 1 THEN 0 ELSE i,
                       nodes[i].el.tag, FALSE)>>
         \o InspectFrom(nodes, i + 1, maxElements, from, selector)

\* What the script pushes to elementsInfo for the selector at `from`.
ExtractSelector(doc, selector, from) ==
    IF SelectorThrows(selector)
    THEN <<ErrorMarker(from, selector)>>
    ELSE LET nodes == querySelectorAll(doc, selector) IN
         IF Len(nodes) = 0
         THEN <<ErrorMarker(from, selector)>>
         ELSE InspectFrom(nodes, 1, MathMin(Len(nodes), MaxElements), from, selector)

\* The value of extractionExpression in the page.
RECURSIVE EvaluateElements(_, _, _)
EvaluateElements(doc, selectors, from) ==
    IF from > Len(selectors) THEN <<>>
    ELSE ExtractSelector(doc, selectors[from], from)
         \o EvaluateElements(doc, selectors, from + 1)

\* validElements: the entries without an "error" key.
ReturnElements(value) == SelectSeq(value, LAMBDA e : ~e.error)

\* ---- the three operations from the script to the returned value

SelQuote == <<"a", "\"">>
\* White space of the allow-list that JSON.stringify escapes, and a control
\* character outside the allow-list.
SelVt == <<"p", "U+000B">>
SelBs == <<"a", "U+0008">>
SelForm == TagForm
SelInput == TagInput

\* The selector lists passed to the operations that evaluate a script.
PageSelectorLists ==
    { <<>>, <<SelDiv>>, <<SelScript, SelId>>, <<SelQuote, SelDiv, TagP>>,
      <<SelForm, SelDiv>>, <<SelInput, TagScript>>, <<SelBrace>>,
      <<SelVt, SelBs, TagBody>> }

\* Option records; an option that is not given reads as false.
PageOptions ==
    [includeScripts : BOOLEAN, includeStyles : BOOLEAN, prettify : BOOLEAN,
     includeComputed : BOOLEAN, includeInherited : BOOLEAN]

\* includeScripts and includeStyles as the caller of captureHTML passes
\* them: `true`, `false`, or left out of the options object (or the whole
\* options argument left out, which is `{}`).
OptionValues == {"true", "false", "undefined"}

GivenOptions == [includeScripts : OptionValues, includeStyles : OptionValues]

NotGiven == [includeScripts |-> "undefined", includeStyles |-> "undefined"]

\* `!options.includeScripts`, `!options.includeStyles`: the flag read as a
\* condition.
TruthyOmitted(v) == v # "false"

Truthy(v) == v = "true"

\* The calls followed: every option that the operation reads is free.
PageCalls ==
    { [op |-> o, selectors |-> l, options |-> x, doc |-> d] :
        o \in {"captureHTML", "captureCSS", "extractElements"},
        l \in PageSelectorLists, x \in PageOptions, d \in Documents }

Reads(o) ==
    CASE o = "captureHTML" -> {"includeScripts", "includeStyles", "prettify"}
      [] o = "captureCSS" -> {"includeComputed", "includeInherited", "prettify"}
      [] OTHER -> {}

\* An operation on a listed tab of a connected provider is about to check
\* its selectors.
InitPage ==
    /\ connected = TRUE
    /\ cdpClient = 1
    /\ enabledDomains = DomainSet
    /\ opened = 1
    /\ rootOpen = {1}
    /\ heldEnabled = DomainSet
    /\ descriptor = FreshDescriptor
    /\ server = NoServer
    /\ call = [p \in Callers |-> Idle]
    /\ \E k \in PageCalls, g \in GivenOptions :
         /\ \A f \in DOMAIN k.options : f \notin Reads(k.op) => ~k.options[f]
         /\ \A f \in DOMAIN g :
               IF f \in Reads(k.op) THEN k.options[f] = Truthy(g[f])
               ELSE g[f] = "undefined"
         /\ evaluation = [NoEvaluation EXCEPT !.op = k.op, !.selectors = k.selectors,
                                              !.given = g,
                                              !.options = k.options, !.doc = k.doc,
                                              !.pc = "called"]

\* The check between findTabById and the try block fails.
RejectSelectors ==
    /\ evaluation.pc = "called"
    /\ ~ValidSelectors(evaluation.op, evaluation.selectors)
    /\ evaluation' = [evaluation EXCEPT !.pc = "rejected"]
    /\ UNCHANGED <<provider, opened, rootOpen, heldEnabled, descriptor, server, call>>

\* The selectors each operation puts into its script.
ScriptSelectors(o, selectors) ==
    IF o = "captureHTML" THEN selectors ELSE sanitizeSelectors(selectors)

\* The operation builds htmlExpression, cssExpression or
\* extractionExpression.
BuildExpression ==
    /\ evaluation.pc = "called"
    /\ ValidSelectors(evaluation.op, evaluation.selectors)
    /\ LET e == evaluation
           mode == CASE e.op = "captureHTML" -> HtmlMode(e.selectors, e.options)
                     [] e.op = "captureCSS" -> "css"
                     [] OTHER -> "elements" IN
       evaluation' = [e EXCEPT
           !.pc = "built",
           !.mode = mode,
           !.selectorsArray =
               IF mode \in {"strip", "verbatim"} THEN <<>>
               ELSE JSONStringify(ScriptSelectors(e.op, e.selectors))]
    /\ UNCHANGED <<provider, opened, rootOpen, heldEnabled, descriptor, server, call>>

\* Runtime.evaluate: the page runs the script and its value comes back.
Evaluate ==
    /\ evaluation.pc = "built"
    /\ LET e == evaluation
           selectors == EmbeddedSelectors(e.selectorsArray) IN
       evaluation' = [e EXCEPT
           !.pc = "evaluated",
           !.value = CASE e.op = "captureHTML" ->
                            EvaluateHTML(e.mode, e.doc, selectors, e.options)
                       [] e.op = "captureCSS" -> EvaluateCSS(e.doc, selectors, e.options)
                       [] OTHER -> EvaluateElements(e.doc, selectors, 1)]
    /\ UNCHANGED <<provider, opened, rootOpen, heldEnabled, descriptor, server, call>>

\* The operation turns the value into what it returns.
Deliver ==
    /\ evaluation.pc = "evaluated"
    /\ LET e == evaluation IN
       evaluation' = [e EXCEPT
           !.pc = "returned",
           !.returned = CASE e.op = "captureHTML" -> ReturnHTML(e.value, e.options)
                          [] e.op = "captureCSS" -> ReturnCSS(e.value, e.options)
                          [] OTHER -> ReturnElements(e.value)]
    /\ UNCHANGED <<provider, opened, rootOpen, heldEnabled, descriptor, server, call>>

\* ---------------------------------------------------- getCapabilities()

\* The longest supportedImageFormats and limitations lists a caller builds.
MaxFormats == 3
MaxLimitations == 1

ImageFormats == {"png", "jpeg", "webp"}

\* getCapabilities(): `{ ...TIER_1_CAPABILITIES }`, a new object whose
\* properties are those of the constant; its two list properties are the
\* constant's own arrays.
getCapabilities ==
    [TIER_1_CAPABILITIES EXCEPT !.supportedImageFormats = descriptor.formats,
                                !.limitations = descriptor.limitations]

\* A caller asks the provider for its capabilities and keeps the value.
GetCapabilities ==
    /\ descriptor' = [descriptor EXCEPT !.held = TRUE,
                                        !.flags = [f \in Flags |-> getCapabilities[f]]]
    /\ UNCHANGED <<provider, opened, rootOpen, heldEnabled, evaluation, server, call>>

\* The caller assigns a flag of the value it holds.
SetFlag ==
    /\ descriptor.held
    /\ \E f \in Flags, v \in BOOLEAN :
         descriptor' = [descriptor EXCEPT !.flags[f] = v]
    /\ UNCHANGED <<provider, opened, rootOpen, heldEnabled, evaluation, server, call>>

\* The caller pushes onto, or pops from, the supportedImageFormats list of
\* the value it holds.
EditFormats ==
    /\ descriptor.held
    /\ \/ /\ Len(descriptor.formats) < MaxFormats
          /\ \E x \in ImageFormats :
               descriptor' = [descriptor EXCEPT !.formats = Append(@, x)]
       \/ /\ descriptor.formats # <<>>
          /\ descriptor' = [descriptor EXCEPT
                               !.formats = SubSeq(@, 1, Len(@) - 1)]
    /\ UNCHANGED <<provider, opened, rootOpen, heldEnabled, evaluation, server, call>>

\* The caller pushes onto, or pops from, the limitations list of the value
\* it holds.
EditLimitations ==
    /\ descriptor.held
    /\ \/ /\ Len(descriptor.limitations) < MaxLimitations
          /\ descriptor' = [descriptor EXCEPT !.limitations = Append(@, "note")]
       \/ /\ descriptor.limitations # <<>>
          /\ descriptor' = [descriptor EXCEPT
                               !.limitations = SubSeq(@, 1, Len(@) - 1)]
    /\ UNCHANGED <<provider, opened, rootOpen, heldEnabled, evaluation, server, call>>

\* ------------------------------------- factory and MCP tool handlers

\* The body above the provider makes its provider calls as caller "c1".
Body == "c1"

\* The tools setupTools() registers.
Tools ==
    {"list_tabs", "capture_page_content", "capture_screenshot", "set_active_tab",
     "extract_elements", "scroll_page", "get_browser_capabilities"}

\* The handlers whose body is inside try/catch (list_tabs: inside
\* safeExecute(...).catch(...)); the catch returns a content response.
CatchingTools == {"list_tabs", "capture_page_content", "extract_elements", "scroll_page"}

ScrollTypes == {"pixels", "coordinates", "viewport", "element", "top", "bottom"}

\* The methods a ChromeProvider has.
ProviderMethods ==
    {"getBrowserType", "getCapabilities", "isAvailable", "connect", "disconnect",
     "listTabs", "captureScreenshot", "captureHTML", "captureCSS", "setActiveTab",
     "extractElements", "captureTab"}

\* The body settles: with a response when nothing was thrown; with the
\* response of its catch block when it has one; else the error leaves it.
Settle(sv, error) ==
    [sv EXCEPT !.pc = "done",
               !.thrown = error,
               !.outcome = IF error = NoResult THEN "content"
                           ELSE IF sv.role \in CatchingTools THEN "error"
                           ELSE "threw"]

\* getBrowserTools(): whatever useBrowserTools threw is replaced by an Error
\* 'Browser initialization failed: ...', thrown into the handler.
InitFailed(sv) == Settle(sv, PlainError("Browser initialization failed"))

\* What a handler does once it has `tools`: the provider method it calls
\* first.  capture_page_content calls captureHTML if includeHTML, then
\* captureCSS if includeCSS with selectors, else neither.
FirstSteps(tool) ==
    CASE tool = "list_tabs" -> {"listTabs"}
      [] tool = "capture_page_content" -> {"captureHTML", "captureCSS", "respond"}
      [] tool = "capture_screenshot" -> {"captureScreenshot"}
      [] tool = "set_active_tab" -> {"setActiveTab"}
      [] tool = "extract_elements" -> {"extractElements"}
      [] tool = "scroll_page" -> {"scrollPage"}
      [] OTHER -> {"getCapabilities"}

\* What follows a provider call that resolved.
NextSteps(step) ==
    CASE step = "isAvailable" -> {"connect"}
      [] step = "connect" -> {"tools"}
      [] step = "captureHTML" -> {"captureCSS", "respond"}
      [] OTHER -> {"respond"}

\* A tool is called: the handler starts with getBrowserTools(browserType),
\* which runs useBrowserTools (detection first for 'auto', then a new
\* provider) unless this.browserTools is set.
HandlerCall ==
    /\ server.role = "none"
    /\ call[Body].pc = "idle"
    /\ \E tool \in Tools, scrollType \in ScrollTypes \cup {""}, selector \in BOOLEAN,
          first \in {"detect", "isAvailable"} :
         /\ tool = "scroll_page" <=> scrollType # ""
         /\ selector => tool = "scroll_page"
         /\ server' = [server EXCEPT
                !.role = tool, !.scrollType = scrollType, !.selector = selector,
                !.pc = IF server.browserTools THEN "tools" ELSE first]
    /\ IF server.browserTools
       THEN UNCHANGED <<provider, heldEnabled>>
       ELSE /\ connected' = FALSE       \* createBrowserProvider: a new
            /\ cdpClient' = NULL        \* ChromeProvider each time
            /\ enabledDomains' = {}
            /\ heldEnabled' = {}
    /\ UNCHANGED <<opened, rootOpen, evaluation, descriptor, call>>

\* detectBestBrowser -> detectChrome: `await fetch(url)` of
\* GET /json/version settles; after a success status detectChrome awaits
\* response.json(), otherwise it returns null and useBrowserTools throws.
HandlerDetect ==
    /\ server.pc = "detect"
    /\ \E answer \in ProbeFetchAnswers :
         server' = IF answer = "success_status" THEN [server EXCEPT !.pc = "detected"]
                   ELSE InitFailed(server)
    /\ UNCHANGED <<provider, opened, rootOpen, heldEnabled, evaluation, descriptor, call>>

\* detectChrome: `await response.json()` settles; with the version
\* information useBrowserTools creates the provider and asks whether it is
\* available.
HandlerDetectBody ==
    /\ server.pc = "detected"
    /\ \E answer \in ProbeBodyAnswers :
         server' = IF answer = "ok" THEN [server EXCEPT !.pc = "isAvailable"]
                   ELSE InitFailed(server)
    /\ UNCHANGED <<provider, opened, rootOpen, heldEnabled, evaluation, descriptor, call>>

\* The handler has `tools` and reaches its first provider call.
HandlerBody ==
    /\ server.pc = "tools"
    /\ \E step \in FirstSteps(server.role) : server' = [server EXCEPT !.pc = step]
    /\ UNCHANGED <<provider, opened, rootOpen, heldEnabled, evaluation, descriptor, call>>

\* The steps that await nothing: tools.scrollPage is not a method of the
\* provider, so calling it throws a TypeError; getCapabilities() returns;
\* the response is built.
HandlerSync ==
    /\ server.pc \in {"scrollPage", "getCapabilities", "respond"}
    /\ server' = IF server.pc \in ProviderMethods \cup {"respond"}
                 THEN Settle(server, NoResult)
                 ELSE Settle(server, PlainError("TypeError: tools.scrollPage is not a function"))
    /\ UNCHANGED <<provider, opened, rootOpen, heldEnabled, evaluation, descriptor, call>>

\* The body calls the provider method it has reached.
Invoke ==
    \/ /\ server.pc = "isAvailable"
       /\ CallIsAvailable(Body)
    \/ /\ server.pc = "connect"
       /\ CallConnect(Body)
    \/ /\ server.pc = "disconnect"
       /\ CallDisconnect(Body)
    \/ /\ server.pc = "listTabs"
       /\ CallListTabs(Body)
    \/ /\ server.pc \in FindOps
       /\ CallTabOp(Body)
       /\ call'[Body].op = server.pc
       /\ server.role = "capture_page_content" /\ server.pc = "captureCSS"
          => call'[Body].selectors # <<>>

\* A provider call of a handler has settled and the handler resumes.
HandlerResume ==
    /\ server.role \in Tools
    /\ call[Body].pc = "ret"
    /\ LET r == call[Body].result IN
       IF r.kind = "ok" /\ r # Ok("false")
       THEN \E step \in NextSteps(server.pc) :
              server' = [server EXCEPT !.pc = step,
                            !.browserTools = @ \/ server.pc = "connect"]
       ELSE server' = IF server.pc \in {"isAvailable", "connect"}
                      THEN InitFailed(server)
                      ELSE Settle(server, r)
    /\ call' = [call EXCEPT ![Body] = Idle]
    /\ UNCHANGED <<provider, opened, rootOpen, heldEnabled, evaluation, descriptor>>

\* The MCP server takes the handler's response or rejection.
HandlerReturn ==
    /\ server.role \in Tools
    /\ server.pc = "done"
    /\ server' = [NoServer EXCEPT !.browserTools = server.browserTools]
    /\ UNCHANGED <<provider, opened, rootOpen, heldEnabled, evaluation, descriptor, call>>

\* The values of BrowserType.
BrowserTypes == {"chrome", "auto"}

\* The Error createBrowserProvider throws in the default branch of its
\* switch.
NotSupported == PlainError("is not currently supported")

\* createConnectedBrowserTools(browserType): createBrowserProvider, outside
\* the try block, creates the provider for "chrome" and throws for every
\* other type; a provider created is asked whether it is available.
FactoryCall ==
    /\ server = NoServer
    /\ call[Body].pc = "idle"
    /\ ~connected /\ cdpClient = NULL /\ opened = 0
    /\ \E browserType \in BrowserTypes :
         server' = IF browserType = "chrome"
                   THEN [server EXCEPT !.role = "factory", !.pc = "isAvailable"]
                   ELSE [server EXCEPT !.role = "factory", !.pc = "done",
                                       !.thrown = NotSupported,
                                       !.outcome = "threw"]
    /\ UNCHANGED <<provider, opened, rootOpen, heldEnabled, evaluation, descriptor, call>>

\* createConnectedBrowserTools resumes: after isAvailable() it connects or
\* throws; after connect() it returns the provider; its catch block awaits
\* disconnect(), ignores what that throws, and rethrows the error it caught.
FactoryResume ==
    /\ server.role = "factory"
    /\ call[Body].pc = "ret"
    /\ LET r == call[Body].result IN
       server' =
         CASE server.pc = "isAvailable" ->
                IF r = Ok("true") THEN [server EXCEPT !.pc = "connect"]
                ELSE [server EXCEPT !.pc = "disconnect",
                                    !.thrown = PlainError("not available")]
           [] server.pc = "connect" ->
                IF r.kind = "ok"
                THEN [server EXCEPT !.pc = "done", !.outcome = "provider"]
                ELSE [server EXCEPT !.pc = "disconnect", !.thrown = r]
           [] OTHER -> [server EXCEPT !.pc = "done", !.outcome = "threw"]
    /\ call' = [call EXCEPT ![Body] = Idle]
    /\ UNCHANGED <<provider, opened, rootOpen, heldEnabled, evaluation, descriptor>>

\* ------------------------------------------------------------- behaviours

Step(p) ==
    \/ CallConnect(p)
    \/ CallIsAvailable(p)
    \/ ProbeResponse(p)
    \/ ProbeBody(p)
    \/ OpenResponse(p)
    \/ EnableResponse(p)
    \/ ConnectContinue(p)
    \/ CallDisconnect(p)
    \/ CloseResponse(p)
    \/ CallListTabs(p)
    \/ ListResponse(p)
    \/ ListBody(p)
    \/ CallTabOp(p)
    \/ FindResponse(p)
    \/ FindBody(p)
    \/ AttachResponse(p)
    \/ TabEnableResponse(p)
    \/ CommandResponse(p)
    \/ TabCloseResponse(p)
    \/ ActivateResponse(p)
    \/ ActivateBody(p)
    \/ CallCaptureTab(p)
    \/ CaptureTabListResponse(p)
    \/ CaptureTabListBody(p)
    \/ SubReturn(p)
    \/ Return(p)

Next == \E p \in Callers : Step(p)

Spec == Init /\ [][Next]_vars

\* One caller alone: the calls run strictly one after the other.
NextSeq == Step("c1")

SpecSeq == Init /\ [][NextSeq]_vars

\* The steps that happen whether or not the browser cooperates.  A fetch is
\* given AbortSignal.timeout(...), so it and the reading of its body settle
\* with an answer or with the abort; a continuation after a settled await is a microtask the event
\* loop runs; a settled call is handed to its caller.  Nothing is assumed of
\* the answers to the CDP transport (CDP(...), <domain>.enable(),
\* Page.captureScreenshot, Runtime.evaluate, close()): the provider awaits
\* them bare, without a timer.
Fairness ==
    /\ WF_vars(ProbeResponse("c1"))
    /\ WF_vars(ProbeBody("c1"))
    /\ WF_vars(ListResponse("c1"))
    /\ WF_vars(ListBody("c1"))
    /\ WF_vars(FindResponse("c1"))
    /\ WF_vars(FindBody("c1"))
    /\ WF_vars(CaptureTabListResponse("c1"))
    /\ WF_vars(CaptureTabListBody("c1"))
    /\ WF_vars(ActivateResponse("c1"))
    /\ WF_vars(ActivateBody("c1"))
    /\ WF_vars(ConnectContinue("c1"))
    /\ WF_vars(SubReturn("c1"))
    /\ WF_vars(Return("c1"))

\* One caller, with the progress the event loop and the fetch timers give.
SpecLive == Init /\ [][NextSeq]_vars /\ Fairness

\* A provider that connect() has connected, with nobody calling it.
InitConnected ==
    /\ connected = TRUE
    /\ cdpClient = 1
    /\ enabledDomains = DomainSet
    /\ opened = 1
    /\ rootOpen = {1}
    /\ heldEnabled = DomainSet
    /\ evaluation = NoEvaluation
    /\ descriptor = FreshDescriptor
    /\ server = NoServer
    /\ call = [p \in Callers |-> Idle]

\* Two callers list the tabs of a connected provider, and may disconnect it.
NextTabs ==
    \E p \in Callers :
        \/ StartListTabs(p)
        \/ ListResponse(p)
        \/ ListBody(p)
        \/ CallDisconnect(p)
        \/ CloseResponse(p)
        \/ Return(p)

SpecTabs == InitConnected /\ [][NextTabs]_vars

\* A caller of a provider, connected or not, reads its capabilities and
\* edits what it was given.
NextCapabilities ==
    \/ GetCapabilities
    \/ SetFlag
    \/ EditFormats
    \/ EditLimitations

SpecCapabilities == (Init \/ InitConnected) /\ [][NextCapabilities]_vars

\* createConnectedBrowserTools on a new provider, or the tool handlers of a
\* BrowserLensServer one after the other, with the browser's answers.
NextServer ==
    \/ FactoryCall
    \/ FactoryResume
    \/ HandlerCall
    \/ HandlerDetect
    \/ HandlerDetectBody
    \/ HandlerBody
    \/ HandlerSync
    \/ Invoke
    \/ HandlerResume
    \/ HandlerReturn
    \/ ProbeResponse(Body)
    \/ ProbeBody(Body)
    \/ OpenResponse(Body)
    \/ EnableResponse(Body)
    \/ ConnectContinue(Body)
    \/ ListResponse(Body)
    \/ ListBody(Body)
    \/ FindResponse(Body)
    \/ FindBody(Body)
    \/ AttachResponse(Body)
    \/ TabEnableResponse(Body)
    \/ CommandResponse(Body)
    \/ TabCloseResponse(Body)
    \/ ActivateResponse(Body)
    \/ ActivateBody(Body)

SpecServer == Init /\ [][NextServer]_vars

\* Two callers run capture operations on the tabs of a connected provider.
NextOps ==
    \E p \in Callers :
        \/ /\ BeginTabOp(p)
           /\ call'[p].op \in CaptureOps
        \/ FindResponse(p)
        \/ FindBody(p)
        \/ AttachResponse(p)
        \/ TabEnableResponse(p)
        \/ CommandResponse(p)
        \/ TabCloseResponse(p)
        \/ Return(p)

SpecOps == InitConnected /\ [][NextOps]_vars

\* The script of one capture call, from its construction to the value the
\* operation returns.
NextPage ==
    \/ RejectSelectors
    \/ BuildExpression
    \/ Evaluate
    \/ Deliver

SpecPage == InitPage /\ [][NextPage]_vars

\* ------------------------------------------- captureScreenshot parameters

\* An optional property: <<>> when the caller leaves it out, <<v>> when
\* given.
Absent == <<>>

Qualities == {Absent, <<0>>, <<1>>, <<80>>, <<100>>}

PixelRatios == {Absent, <<1>>, <<2>>}

Clips ==
    {Absent, <<[x |-> 0, y |-> 0, width |-> 100, height |-> 50]>>,
     <<[x |-> 10, y |-> 20, width |-> 1, height |-> 1]>>}

\* CaptureOptions.
CaptureOptions ==
    [format : {Absent, <<"png">>, <<"jpeg">>, <<"webp">>},
     quality : Qualities,
     fullPage : OptionValues,
     clip : Clips,
     devicePixelRatio : PixelRatios]

\* `a || b` on an optional number: b when a is left out or is 0.
NumberOrElse(a, b) == IF a # Absent /\ a[1] # 0 THEN a ELSE b

\* The object passed to Page.captureScreenshot.
screenshotParams(options) ==
    [format |-> IF options.format # Absent THEN options.format[1] ELSE "png",
     quality |-> NumberOrElse(options.quality,
                              IF options.format = <<"jpeg">> THEN <<80>> ELSE Absent),
     captureBeyondViewport |-> Truthy(options.fullPage),
     clip |-> IF options.clip # Absent
              THEN <<[x |-> options.clip[1].x,
                      y |-> options.clip[1].y,
                      width |-> options.clip[1].width,
                      height |-> options.clip[1].height,
                      scale |-> NumberOrElse(options.devicePixelRatio, <<1>>)[1]]>>
              ELSE Absent]

\* captureScreenshot on a listed tab of a connected provider has attached
\* to the tab and is about to prepare its parameters.
InitShot ==
    /\ connected = TRUE
    /\ cdpClient = 1
    /\ enabledDomains = DomainSet
    /\ opened = 1
    /\ rootOpen = {1}
    /\ heldEnabled = DomainSet
    /\ descriptor = FreshDescriptor
    /\ server = NoServer
    /\ call = [p \in Callers |-> Idle]
    /\ \E options \in CaptureOptions :
         evaluation = [NoEvaluation EXCEPT !.op = "captureScreenshot",
                                           !.given = options, !.pc = "attached"]

\* The operation prepares screenshotParams and sends the command.
SendScreenshot ==
    /\ evaluation.op = "captureScreenshot"
    /\ evaluation.pc = "attached"
    /\ evaluation' = [evaluation EXCEPT !.pc = "sent",
                                        !.value = screenshotParams(evaluation.given)]
    /\ UNCHANGED <<provider, opened, rootOpen, heldEnabled, descriptor, server, call>>

NextShot == SendScreenshot

SpecShot == InitShot /\ [][NextShot]_vars

\* ------------------------------- server: initialisation and shutdown

\* The providers useBrowserTools creates and the shutdown events the
\* process receives, at most.
MaxProviders == 3
MaxTriggers == 2

\* Tool invocations the MCP server is handling at the same time.
Invocations == {"i1", "i2"}

\* The events setupShutdownHandlers listens to.
ShutdownSignals ==
    {"SIGINT", "SIGTERM", "beforeExit", "uncaughtException", "unhandledRejection"}

\* How `await this.cdpClient.close()` of the disconnect() of a connected
\* provider settles.  disconnect() resolves either way: it catches what
\* close() throws, before it has cleared the connected flag.
DisconnectOutcomes == {"closed", "threw"}

\* How `await fs.rm(...)` of cleanupCaptureDirectory settles; it catches
\* what fs.rm throws.
RemoveOutcomes == {"removed", "threw"}

\* An invocation that is not running.
NoInvocation ==
    [pc |-> "idle",
     provider |-> NULL,   \* the provider its useBrowserTools created
     tools |-> NULL]      \* what getBrowserTools returned to it

\* The server after construction.  Providers are numbered as created.
LifecycleServer ==
    [browserTools |-> NULL,        \* BrowserLensServer.browserTools
     isShuttingDown |-> FALSE,     \* BrowserLensServer.isShuttingDown
     shutdown |-> "none",          \* where gracefulShutdown is
     signal |-> "",                \* the event that began the shutdown
     exit |-> Absent,              \* the code given to process.exit
     closed |-> "unset",           \* how close() settled in the routine
     removed |-> "unset",          \* how the removal of captureDir went
     created |-> 0,                \* providers created so far
     connectedTools |-> {},        \* providers whose connect() succeeded
     disconnected |-> <<>>,        \* providers disconnect() was called on
     routines |-> 0,               \* runs of the body of gracefulShutdown
     triggers |-> 0,               \* shutdown events received
     storedAtShutdown |-> NULL,    \* browserTools when the routine read it
     inv |-> [i \in Invocations |-> NoInvocation]]

InitLifecycle ==
    /\ connected = FALSE
    /\ cdpClient = NULL
    /\ enabledDomains = {}
    /\ opened = 0
    /\ rootOpen = {}
    /\ heldEnabled = {}
    /\ evaluation = NoEvaluation
    /\ descriptor = FreshDescriptor
    /\ server = LifecycleServer
    /\ call = [p \in Callers |-> Idle]

\* The process has not exited.
Running == server.exit = Absent

\* A tool handler calls getBrowserTools: the stored provider when there is
\* one, otherwise useBrowserTools, which first awaits detectBestBrowser.
getBrowserTools(i) ==
    /\ Running
    /\ server.inv[i].pc = "idle"
    /\ server' = [server EXCEPT !.inv[i] =
                     IF server.browserTools # NULL
                     THEN [pc |-> "using", provider |-> NULL,
                           tools |-> server.browserTools]
                     ELSE [pc |-> "detecting", provider |-> NULL, tools |-> NULL]]
    /\ UNCHANGED <<provider, opened, rootOpen, heldEnabled, evaluation, descriptor, call>>

\* detectBestBrowser answers: without a browser useBrowserTools throws,
\* with one it creates a provider and awaits provider.isAvailable().
Detected(i) ==
    /\ Running
    /\ server.inv[i].pc = "detecting"
    /\ \E found \in BOOLEAN :
         IF found
         THEN /\ server.created < MaxProviders
              /\ server' = [server EXCEPT !.created = @ + 1,
                                          !.inv[i].pc = "probing",
                                          !.inv[i].provider = server.created + 1]
         ELSE server' = [server EXCEPT !.inv[i].pc = "failed"]
    /\ UNCHANGED <<provider, opened, rootOpen, heldEnabled, evaluation, descriptor, call>>

\* provider.isAvailable() answers: false makes useBrowserTools throw, true
\* makes it await provider.connect().
Probed(i) ==
    /\ Running
    /\ server.inv[i].pc = "probing"
    /\ \E available \in BOOLEAN :
         server' = [server EXCEPT !.inv[i].pc =
                      IF available THEN "connecting" ELSE "failed"]
    /\ UNCHANGED <<provider, opened, rootOpen, heldEnabled, evaluation, descriptor, call>>

\* provider.connect() settles.  On success useBrowserTools returns the
\* provider, getBrowserTools stores it and returns this.browserTools; on
\* failure getBrowserTools throws and stores nothing.
ConnectSettled(i) ==
    /\ Running
    /\ server.inv[i].pc = "connecting"
    /\ \E ok \in BOOLEAN :
         server' = IF ok
                   THEN [server EXCEPT
                           !.connectedTools = @ \cup {server.inv[i].provider},
                           !.browserTools = server.inv[i].provider,
                           !.inv[i].pc = "using",
                           !.inv[i].tools = server.inv[i].provider]
                   ELSE [server EXCEPT !.inv[i].pc = "failed"]
    /\ UNCHANGED <<provider, opened, rootOpen, heldEnabled, evaluation, descriptor, call>>

\* The handler of the invocation ends, with a result or with the
\* initialisation error.
InvocationEnds(i) ==
    /\ Running
    /\ server.inv[i].pc \in {"using", "failed"}
    /\ server' = [server EXCEPT !.inv[i].pc = "idle"]
    /\ UNCHANGED <<provider, opened, rootOpen, heldEnabled, evaluation, descriptor, call>>

\* Mutant: the shutdown routine does not look at isShuttingDown.
gracefulShutdownUnguarded(signal) ==
    /\ Running
    /\ server.triggers < MaxTriggers
    /\ server' = [server EXCEPT
             !.triggers = @ + 1,
             !.isShuttingDown = TRUE,
             !.routines = @ + 1,
             !.signal = signal,
             !.storedAtShutdown = server.browserTools,
             !.disconnected = IF server.browserTools # NULL
                              THEN Append(@, server.browserTools) ELSE @,
             !.shutdown = IF server.browserTools # NULL
                          THEN "disconnecting" ELSE "cleaning"]
    /\ UNCHANGED <<provider, opened, rootOpen, heldEnabled, evaluation, descriptor, call>>

\* One of the shutdown events arrives and gracefulShutdown(signal) runs up
\* to its first await: nothing when isShuttingDown is set; otherwise it
\* sets the flag and calls disconnect() on the stored provider, or goes on
\* to cleanupCaptureDirectory() when none is stored.
gracefulShutdown(signal) ==
    /\ Running
    /\ server.triggers < MaxTriggers
    /\ server' = IF server.isShuttingDown
                 THEN [server EXCEPT !.triggers = @ + 1]
                 ELSE [server EXCEPT
                         !.triggers = @ + 1,
                         !.isShuttingDown = TRUE,
                         !.routines = @ + 1,
                         !.signal = signal,
                         !.storedAtShutdown = server.browserTools,
                         !.disconnected = IF server.browserTools # NULL
                                          THEN Append(@, server.browserTools) ELSE @,
                         !.shutdown = IF server.browserTools # NULL
                                      THEN "disconnecting" ELSE "cleaning"]
    /\ UNCHANGED <<provider, opened, rootOpen, heldEnabled, evaluation, descriptor, call>>

ShutdownTrigger == \E signal \in ShutdownSignals : gracefulShutdown(signal)

\* close() settles in the disconnect() of the stored provider, which is
\* connected: when it resolved the provider is Disconnected, when it threw
\* disconnect() logs the error and the provider stays connected.
\* disconnect() resolves in both cases and the routine goes on to
\* cleanupCaptureDirectory(), which awaits fs.access(captureDir).
DisconnectSettled ==
    /\ Running
    /\ server.shutdown = "disconnecting"
    /\ \E outcome \in DisconnectOutcomes :
         server' = [server EXCEPT
                      !.shutdown = "cleaning",
                      !.closed = outcome,
                      !.connectedTools = IF outcome = "closed"
                                         THEN @ \ {server.storedAtShutdown} ELSE @]
    /\ UNCHANGED <<provider, opened, rootOpen, heldEnabled, evaluation, descriptor, call>>

\* fs.access(captureDir) settles: with the directory there
\* cleanupCaptureDirectory awaits fs.rm, without it it returns and the
\* routine calls process.exit(0).
CaptureDirChecked ==
    /\ Running
    /\ server.shutdown = "cleaning"
    /\ \E exists \in BOOLEAN :
         server' = IF exists
                   THEN [server EXCEPT !.shutdown = "removing"]
                   ELSE [server EXCEPT !.shutdown = "completed", !.removed = "absent",
                                       !.exit = <<0>>]
    /\ UNCHANGED <<provider, opened, rootOpen, heldEnabled, evaluation, descriptor, call>>

\* fs.rm settles: cleanupCaptureDirectory logs what it threw and resolves,
\* and the routine calls process.exit(0).
CleanupSettled ==
    /\ Running
    /\ server.shutdown = "removing"
    /\ \E outcome \in RemoveOutcomes :
         server' = [server EXCEPT !.shutdown = "completed", !.removed = outcome,
                                  !.exit = <<0>>]
    /\ UNCHANGED <<provider, opened, rootOpen, heldEnabled, evaluation, descriptor, call>>

NextLifecycle ==
    \/ \E i \in Invocations :
         \/ getBrowserTools(i)
         \/ Detected(i)
         \/ Probed(i)
         \/ ConnectSettled(i)
         \/ InvocationEnds(i)
    \/ ShutdownTrigger
    \/ DisconnectSettled
    \/ CaptureDirChecked
    \/ CleanupSettled

SpecLifecycle == InitLifecycle /\ [][NextLifecycle]_vars

\* ------------------------------------------------------------ properties

\* A call has completed and its outcome is visible to whoever awaits it.
Completed(c) == c.pc \in {"ret", "subret"}

\* C1: a call of listTabs, captureScreenshot, captureHTML, captureCSS,
\* extractElements, setActiveTab or captureTab made while the connected flag
\* is false fails with BrowserConnectionError and has sent no request of any
\* kind to the browser.
C1_NotConnectedFails ==
    \A p \in Callers :
        LET c == call[p] IN
        (c.pc = "ret" /\ c.op \in GuardedOps /\ ~c.wasConnected)
            => /\ c.result.kind = "BrowserConnectionError"
               /\ c.result.browser = "chrome"
               /\ c.reqs = {}

\* C1 witness: after a connection was opened and closed again, a tab
\* operation and a captureTab rejected for lack of a connection.
C1_Witness ==
    \E p \in Callers :
        /\ call[p].pc = "ret"
        /\ call[p].op \in {"captureHTML", "captureTab"}
        /\ ~call[p].wasConnected
        /\ call[p].result.kind = "BrowserConnectionError"
        /\ opened >= 1
        /\ rootOpen = {}

\* C2 (as claimed): when captureScreenshot, captureHTML, captureCSS or
\* extractElements returns or throws, the tab attachment it opened has had
\* close() invoked on it.
C2_AttachmentClosedOnReturn ==
    \A p \in Callers :
        LET c == call[p] IN
        (Completed(c) /\ c.inner \in CaptureOps)
            => c.attachment \in {"none", "closeCalled", "closed"}

\* C3 (as claimed): once disconnect() has returned on a provider that was
\* Connected, the provider is Disconnected and no domain is recorded as
\* enabled.
C3_DisconnectedAfterDisconnect ==
    \A p \in Callers :
        LET c == call[p] IN
        (c.pc = "ret" /\ c.op = "disconnect" /\ c.wasConnected)
            => (~connected /\ enabledDomains = {})

\* A connect() call that has not completed yet.
ConnectInFlight(c) == c.op = "connect" /\ c.pc \notin {"idle", "ret"}

\* C4 (as claimed): of two connect() calls in flight together on a provider
\* that was Disconnected, at most one opens a root transport and no baseline
\* domain is sent an enable request by both.
C4_SingleInitialization ==
    \A p, q \in Callers :
        (p # q /\ ConnectInFlight(call[p]) /\ ConnectInFlight(call[q]))
            => /\ ~(call[p].root # NULL /\ call[q].root # NULL)
               /\ \A i \in 1..Len(Domains) :
                    ~(EnableReq[Domains[i]] \in call[p].reqs
                        /\ EnableReq[Domains[i]] \in call[q].reqs)

\* C5 (as claimed): at every point of a sequence of connect() and
\* disconnect() calls at most one root transport opened by the provider is
\* open.
C5_AtMostOneOpenTransport == Cardinality(rootOpen) <= 1

\* The listing fetched for the lookup of tabId has just arrived and does
\* not show the tab.
LookupMissed(p) ==
    /\ call[p].pc \in {"found", "listed"}
    /\ call[p].inner \in FindOps \cup {"captureTab"}
    /\ call'[p].pc # call[p].pc
    /\ call'[p].listed = "absent"

\* C6: when the listing fetched by captureScreenshot, captureHTML,
\* captureCSS, extractElements, setActiveTab or captureTab does not contain
\* the tabId, the operation fails at once with TabNotFoundError carrying
\* that tabId; it sends nothing more, so a call made by the caller has sent
\* the listing fetch only: no attachment, no command, no activation.
C6_AbsentTabFails ==
    [][\A p \in Callers :
         LookupMissed(p)
            => /\ Completed(call'[p])
               /\ call'[p].result = TabNotFoundError(call[p].tabId)
               /\ call'[p].reqs = call[p].reqs
               /\ call[p].inner = call[p].op => call'[p].reqs = {"list"}
               /\ UNCHANGED <<provider, browser>>]_vars

\* C6 witness: captureCSS for tab B, which the fetched listing lacks, has
\* failed with TabNotFoundError for B.
C6_Witness ==
    \E p \in Callers :
        /\ call[p].pc = "ret"
        /\ call[p].op = "captureCSS"
        /\ call[p].tabId = "B"
        /\ call[p].listed = "absent"
        /\ call[p].result = TabNotFoundError("B")

\* C7: when isAvailable() reports false, connect() fails with a
\* BrowserConnectionError for 'chrome' whose cause is the Error it threw; it
\* has sent the probe only (no transport opened, no domain enabled) and the
\* connected flag, the handle and the enabled-domain set are as before.
C7_ProbeFailureFails ==
    [][\A p \in Callers :
         (call[p].pc \in {"probing", "probed"} /\ call'[p].available = "no")
            => /\ call'[p].pc = "ret"
               /\ call'[p].result = BrowserConnectionError("ChromeNotAvailable")
               /\ call'[p].result.browser = "chrome"
               /\ call'[p].reqs = {"probe"}
               /\ UNCHANGED <<provider, browser>>]_vars

\* C7 witness: a connect() that failed on the probe, on a provider that is
\* still Disconnected.
C7_Witness ==
    \E p \in Callers :
        /\ call[p].pc = "ret"
        /\ call[p].op = "connect"
        /\ call[p].available = "no"
        /\ call[p].result = BrowserConnectionError("ChromeNotAvailable")
        /\ ~connected

\* C8: connect() on a Connected provider returns at once: no probe, no
\* transport, no enable request, and the connected flag, the handle and the
\* enabled-domain set are unchanged.
C8_ConnectIdempotent ==
    [][\A p \in Callers :
         (call[p].pc = "idle" /\ call'[p].op = "connect" /\ connected)
            => /\ call'[p].pc = "ret"
               /\ call'[p].result = Ok("")
               /\ call'[p].reqs = {}
               /\ UNCHANGED <<provider, browser>>]_vars

\* C8 witness: a connect() that returned on a provider that was Connected
\* with all three domains enabled.
C8_Witness ==
    \E p \in Callers :
        /\ call[p].pc = "ret"
        /\ call[p].op = "connect"
        /\ call[p].wasConnected
        /\ call[p].result = Ok("")
        /\ enabledDomains = DomainSet

\* C9 (as claimed): disconnect() never throws, whatever close() does; on a
\* Disconnected provider it returns at once without any transport call and
\* without changing any state; and so does a second call made right after a
\* first one: with one caller, whose calls follow one another, a
\* disconnect() made in the state a disconnect() has returned in takes the
\* return of the guard.
C9_DisconnectIdempotent ==
    /\ [](\A p \in Callers :
            (call[p].pc = "ret" /\ call[p].op = "disconnect")
                => call[p].result = Ok(""))
    /\ [][\A p \in Callers :
            (call[p].pc = "idle" /\ call'[p].op = "disconnect" /\ ~connected)
               => /\ call'[p].pc = "ret"
                  /\ call'[p].reqs = {}
                  /\ UNCHANGED <<provider, browser>>]_vars
    /\ [](\A p \in Callers :
            (call[p].pc = "ret" /\ call[p].op = "disconnect")
                => NothingToDisconnect)

\* Caller p sends the enable request for domain d in this step.
EnableSent(p, d) ==
    /\ call'[p].pc = "enabling"
    /\ call[p].pc # "enabling" \/ call'[p].domain # call[p].domain
    /\ Domains[call'[p].domain] = d

\* C10: the enabled-domain set shrinks only when a disconnect() empties it;
\* an enable request goes out on the root connection only for a domain that
\* is not in the set; and a domain enters the set only as the answer to the
\* pending enable request for it.
C10_EnabledDomainsMonotonic ==
    [][/\ enabledDomains \subseteq enabledDomains'
          \/ /\ enabledDomains' = {}
             /\ \E p \in Callers :
                  /\ call'[p].op = "disconnect"
                  /\ call[p].pc \in {"idle", "closing"}
                  /\ call'[p].pc = "ret"
       /\ \A p \in Callers : \A d \in DomainSet :
            EnableSent(p, d) => d \notin enabledDomains
       /\ \A d \in enabledDomains' \ enabledDomains :
            \E p \in Callers :
                /\ call[p].pc = "enabling"
                /\ Domains[call[p].domain] = d
                /\ call[p].target \in rootOpen
                /\ call'[p].pc = "enabled"]_vars

\* C10 witness: a connect() that found Page already recorded skipped its
\* enable request and is waiting for the answer to Runtime.enable.
C10_Witness ==
    \E p \in Callers :
        /\ call[p].pc = "enabling"
        /\ call[p].domain = 2
        /\ EnableReq["Page"] \notin call[p].reqs
        /\ enabledDomains = {"Page"}

\* The awaits on the CDP transport that the claim C11 names: opening the
\* root transport or a tab attachment, a domain enable on either, and the
\* command (Page.captureScreenshot or Runtime.evaluate).
CdpWaits == {"opening", "enabling", "attaching", "tabEnabling", "command"}

\* C11 (as claimed): a call waiting on the browser for a transport, a tab
\* attachment, a domain enable, Page.captureScreenshot or Runtime.evaluate
\* does not stay pending forever: even if the browser never answers, the
\* wait ends (the timeout fails it).
C11_WaitOnBrowserEnds ==
    \A p \in Callers :
        (call[p].pc \in CdpWaits) ~> (call[p].pc \notin CdpWaits)

\* C13 (as claimed): captureCSS called on a Connected provider with an
\* empty selectors list fails with a validation error (a plain Error, not a
\* CaptureError) before any request is made to the browser.
C13_CssValidationBeforeIO ==
    \A p \in Callers :
        LET c == call[p] IN
        (c.pc = "ret" /\ c.op = "captureCSS" /\ c.wasConnected
            /\ ~CssSelectorsGiven(c.selectors))
            => /\ c.result = ValidationError("captureCSS")
               /\ c.reqs = {}

\* The requested sub-captures that captureTab has neither stored on the
\* result nor still to run.
Unfinished(c) == {o \in c.want : o \notin c.captured /\ \A i \in 1..Len(c.pending) : c.pending[i] # o}

\* C14: a captureTab whose own listing showed the tab returns a result only
\* with a value for exactly the requested sub-captures and the TabInfo of
\* that tab; otherwise it throws CaptureError(tabId, 'complete'), exactly
\* one requested sub-capture (the failed one) is then neither stored nor
\* still to run, and those after it were never started.  The TabInfo is
\* the one found by captureTab's own listing: the listings of the
\* sub-captures do not change it.
C14_CaptureTabAllOrNothing ==
    /\ [](\A p \in Callers :
            LET c == call[p] IN
            (c.pc = "ret" /\ c.op = "captureTab" /\ c.tabInfo # NoTab)
                => \/ /\ c.result = Ok("result")
                      /\ c.captured = c.want
                      /\ c.pending = <<>>
                      /\ c.tabInfo.id = c.tabId
                   \/ /\ c.result = CaptureError(c.tabId, "complete")
                      /\ Cardinality(Unfinished(c)) = 1
                      /\ \A i \in 1..Len(c.pending) : c.pending[i] \notin c.captured)
    /\ [][\A p \in Callers :
            (call[p].op = "captureTab" /\ call[p].tabInfo # NoTab
                /\ call'[p].op = "captureTab")
               => call'[p].tabInfo = call[p].tabInfo]_vars

\* C14 witness: captureTab with screenshot, html and css requested threw
\* CaptureError 'complete' after the screenshot was stored and the html
\* capture failed; the css capture is still to run.
C14_Witness ==
    \E p \in Callers :
        /\ call[p].pc = "ret"
        /\ call[p].op = "captureTab"
        /\ call[p].want = {"captureScreenshot", "captureHTML", "captureCSS"}
        /\ call[p].captured = {"captureScreenshot"}
        /\ call[p].pending = <<"captureCSS">>
        /\ call[p].result = CaptureError(call[p].tabId, "complete")

\* C15: in captureScreenshot, captureHTML, captureCSS and extractElements,
\* once the listing showed the tab and the selectors passed validation,
\* every failure (attach, domain enable on the attachment, command, page
\* script exception) reaches whoever awaits the operation as a CaptureError
\* with the tabId and the capture type of that operation.
C15_FailureAfterFindIsCaptureError ==
    \A p \in Callers :
        LET c == call[p] IN
        (Completed(c) /\ c.inner \in CaptureOps /\ c.listed = "present"
            /\ ValidSelectors(c.inner, c.selectors) /\ c.result.kind # "ok")
            => c.result = CaptureError(c.tabId, CaptureKind[c.inner])

\* C15 witness: extractElements on a listed tab sent its Runtime.evaluate
\* and failed with CaptureError 'elements'.
C15_Witness ==
    \E p \in Callers :
        /\ call[p].pc = "ret"
        /\ call[p].op = "extractElements"
        /\ call[p].listed = "present"
        /\ "command" \in call[p].reqs
        /\ call[p].result = CaptureError(call[p].tabId, "elements")

\* C16 (as claimed): extractElements called on a Connected provider with a
\* selector list of which no selector passes the allow-list fails with a
\* validation error (a plain Error, not a CaptureError) and sanitization
\* comes first: no request was made to the browser.
C16_ExtractValidationBeforeIO ==
    \A p \in Callers :
        LET c == call[p] IN
        (c.pc = "ret" /\ c.op = "extractElements" /\ c.wasConnected
            /\ ~ExtractSelectorsValid(c.selectors))
            => /\ c.result = ValidationError("extractElements")
               /\ c.reqs = {}

\* The positions of the targets of type 'page' in a fetched listing.
PagePositions(raw) == {i \in 1..Len(raw) : raw[i].type = "page"}

\* C20: the list listTabs returns holds exactly the targets of type 'page'
\* of the fetched listing, in the fetched order; its first entry, if any,
\* is the only active one.  A listTabs on a Connected provider that does
\* not return a list failed with BrowserConnectionError for 'chrome', the
\* fetch being the only request it made.
C20_ListTabsPagesInOrder ==
    \A p \in Callers :
        LET c == call[p] IN
        (c.pc = "ret" /\ c.op = "listTabs" /\ c.wasConnected)
            => \/ /\ c.result = Ok("tabs")
                  /\ Len(c.tabs) = Cardinality(PagePositions(c.raw))
                  /\ \A k \in 1..Len(c.tabs) :
                       \E i \in PagePositions(c.raw) :
                           /\ Cardinality({j \in PagePositions(c.raw) : j < i}) = k - 1
                           /\ c.tabs[k].id = c.raw[i].id
                           /\ c.tabs[k].active = (k = 1)
               \/ /\ c.result.kind = "BrowserConnectionError"
                  /\ c.result.browser = "chrome"
                  /\ c.reqs = {"list"}
                  /\ c.tabs = <<>>

\* C20 witness: listTabs returned the one page of a listing that starts with
\* a service worker, marked active.
C20_Witness ==
    \E p \in Callers :
        /\ call[p].pc = "ret"
        /\ call[p].op = "listTabs"
        /\ call[p].result = Ok("tabs")
        /\ Len(call[p].raw) = 2
        /\ call[p].raw[1].type = "service_worker"
        /\ call[p].tabs = <<[id |-> "A", active |-> TRUE]>>

\* The script of the call holds a selector list.
HasSelectorsArray == evaluation.mode \in {"selectors", "css", "elements"}

\* C12 (as claimed): every selector embedded in the script that captureHTML,
\* captureCSS or extractElements sends for evaluation is character for
\* character one of the caller's selectors and consists of allow-listed
\* characters only; a selector outside the allow-list is not embedded.
C12_EmbeddedSelectorsAllowed ==
    (evaluation.pc \in {"built", "evaluated", "returned"} /\ HasSelectorsArray)
        => LET embedded == EmbeddedSelectors(evaluation.selectorsArray) IN
           \A i \in 1..Len(embedded) :
               /\ \E j \in 1..Len(evaluation.selectors) :
                      embedded[i] = evaluation.selectors[j]
               /\ SelectorAllowed(embedded[i])

\* The matches of a selector in the document (none when it does not parse).
MatchCount(doc, selector) ==
    IF SelectorThrows(selector) THEN 0 ELSE Len(querySelectorAll(doc, selector))

\* Processing the selector raises an exception: it does not parse, or one of
\* the matches that are inspected cannot be inspected.
ProcessingRaises(doc, selector) ==
    \/ SelectorThrows(selector)
    \/ \E i \in 1..MathMin(MatchCount(doc, selector), MaxElements) :
           querySelectorAll(doc, selector)[i].el.shadowed

\* C17 (as claimed): the list extractElements returns holds, for each
\* sanitized selector with m >= 1 matches, exactly min(m, 10) entries, and
\* no entry for a selector with zero matches or whose processing raised an
\* exception, whatever the other selectors of the list do.
C17_EntriesPerSelector ==
    (evaluation.pc = "returned" /\ evaluation.op = "extractElements")
        => LET sanitized == sanitizeSelectors(evaluation.selectors) IN
           \A k \in 1..Len(sanitized) :
               LET n == Cardinality({i \in 1..Len(evaluation.returned) :
                                        evaluation.returned[i].from = k})
                   m == MatchCount(evaluation.doc, sanitized[k]) IN
               IF m = 0 \/ ProcessingRaises(evaluation.doc, sanitized[k])
               THEN n = 0
               ELSE n = MathMin(m, 10)

\* C18: the string captureCSS returns is one block per sanitized selector,
\* in input order, with '\n\n' between two blocks and nothing else: the
\* comment naming the selector exactly when it parses and has no match, an
\* error comment when it does not parse, and for a selector with matches a
\* property block built from the first match (or an error comment if
\* reading it raised an exception).
C18_OneBlockPerSelector ==
    (evaluation.pc = "returned" /\ evaluation.op = "captureCSS")
        => LET sanitized == sanitizeSelectors(evaluation.selectors)
               out == evaluation.returned IN
           /\ Len(out) = IF Len(sanitized) = 0 THEN 0 ELSE 2 * Len(sanitized) - 1
           /\ \A k \in 1..(Len(sanitized) - 1) : out[2 * k].kind = "separator"
           /\ \A k \in 1..Len(sanitized) :
                LET b == out[2 * k - 1]
                    m == MatchCount(evaluation.doc, sanitized[k]) IN
                /\ b.kind \in {"miss", "error", "rules", "empty"}
                /\ b.selector = sanitized[k]
                /\ b.kind = "miss" <=> (m = 0 /\ ~SelectorThrows(sanitized[k]))
                /\ SelectorThrows(sanitized[k]) => b.kind = "error"
                /\ b.kind \in {"rules", "empty"}
                     => /\ m >= 1
                        /\ b.tag = querySelectorAll(evaluation.doc, sanitized[k])[1].el.tag

\* C18 witness: captureCSS returned an error comment for a selector that
\* does not parse, then the block of the first <div>, then the comment for
\* a selector without matches.
C18_Witness ==
    /\ evaluation.pc = "returned"
    /\ evaluation.op = "captureCSS"
    /\ Len(evaluation.returned) = 5
    /\ evaluation.returned[1].kind = "error"
    /\ evaluation.returned[3].kind = "rules"
    /\ evaluation.returned[3].tag = TagDiv
    /\ evaluation.returned[5].kind = "miss"
    /\ evaluation.returned[5].selector = TagP

\* C19 (as claimed): whatever the other options and the selectors, the HTML
\* captureHTML returns has no <script> element when includeScripts is
\* false, and no <style> element, no stylesheet <link> and no element with
\* a style attribute when includeStyles is false.
C19_StrippedHtml ==
    (evaluation.pc = "returned" /\ evaluation.op = "captureHTML")
        => \A i \in 1..Len(evaluation.returned) :
               LET token == evaluation.returned[i] IN
               token.t = "open"
                  => /\ ~evaluation.options.includeScripts => token.tag # TagScript
                     /\ ~evaluation.options.includeStyles
                          => /\ token.tag # TagStyle
                             /\ ~(token.tag = TagLink /\ token.rel = "stylesheet")
                             /\ ~token.style

\* C21: two listTabs calls running concurrently on a connected provider each
\* perform their own fetch and return the snapshot of their own fetch: when
\* the fetch of a call has answered and its body is read, the call returns
\* the page targets of that body whatever the other call has fetched or
\* returned, it fails only with the failure of its own fetch or body, the
\* other call is left as it is, and nothing is written to the provider's
\* state.
C21_ConcurrentListTabsIndependent ==
    [][\A p \in Callers :
         (call[p].inner = "listTabs" /\ call[p].pc \in {"listing", "listed"}
            /\ call'[p].pc # call[p].pc)
         => /\ "list" \in call[p].reqs
            /\ call'[p].pc \in {"listed", "ret"}
            /\ call'[p].pc = "listed" => call'[p] = [call[p] EXCEPT !.pc = "listed"]
            /\ call'[p].pc = "ret"
                 => call'[p].result \in
                      {Ok("tabs"), BrowserConnectionError("FetchFailed"),
                       BrowserConnectionError("BodyFailed")}
            /\ call'[p].result = Ok("tabs") => call'[p].tabs = MapTabs(call'[p].raw)
            /\ \A q \in Callers \ {p} : call'[q] = call[q]
            /\ UNCHANGED provider]_vars

\* Both calls were started on the connected provider and both have returned,
\* with different listings.
C21_Witness ==
    /\ \A p \in Callers :
         /\ call[p].op = "listTabs"
         /\ call[p].pc = "ret"
         /\ call[p].wasConnected
         /\ call[p].result = Ok("tabs")
    /\ call["c1"].tabs # call["c2"].tabs
    /\ call["c1"].tabs # <<>>
    /\ call["c2"].tabs # <<>>

\* The POST requests a call has sent to /json/activate/<id>.
Activations(c) == c.reqs \ {"list"}

\* C22: setActiveTab(tabId) sends an activation request only after a listing
\* fetched within the same call showed tabId; it sends one activation
\* request, for that tabId, and nothing after it; it opens no tab attachment
\* and sends no command; when the activation has answered the call resolves
\* or throws BrowserConnectionError.
C22_ActivationAfterListing ==
    [][\A p \in Callers :
         call'[p].op = "setActiveTab"
         => LET c == call[p]
                d == call'[p] IN
            /\ d.attachment = "none" /\ d.tabClient = NULL
            /\ d.reqs \subseteq {"list", IF d.tabId = "A" THEN "/json/activate/A"
                                                          ELSE "/json/activate/B"}
            /\ (Activations(d) # {} /\ Activations(c) = {})
               => /\ c.op = "setActiveTab" /\ c.pc = "found"
                  /\ "list" \in c.reqs
                  /\ d.listed = "present"
                  /\ d.pc = "activating"
            /\ (c.op = "setActiveTab" /\ Activations(c) # {})
               => /\ d.reqs = c.reqs
                  /\ c.pc \in {"activating", "activated"}
                  /\ d.pc \in {"activated", "ret"}
                  /\ d.pc = "ret"
                       => d.result \in {Ok(""), BrowserConnectionError("ActivateFailed")}
         ]_vars

\* setActiveTab("B") has failed at the activation request, after a listing
\* that showed tab B.
C22_Witness ==
    LET c == call["c1"] IN
    /\ c.op = "setActiveTab" /\ c.tabId = "B"
    /\ c.pc = "ret"
    /\ c.listed = "present"
    /\ c.reqs = {"list", "/json/activate/B"}
    /\ c.result = BrowserConnectionError("ActivateFailed")

\* The answers of GET /json/version that carry a success status.
SuccessStatus == {"ok", "bad_json"}

\* What C24 requires of every step of an isAvailable() call, given the
\* answers on which it is to return true.
IsAvailableSteps(trueOn) ==
    \A p \in Callers :
      (call'[p].op = "isAvailable" /\ call'[p] # call[p])
      => LET d == call'[p] IN
         /\ UNCHANGED <<provider, opened, rootOpen, heldEnabled>>
         /\ d.reqs = {"probe"}
         /\ d.attachment = "none"
         /\ d.pc \in {"probing", "probed", "ret"}
         /\ d.pc = "ret"
            => /\ d.probe \in ProbeAnswers
               /\ d.result = Ok(IF d.probe \in trueOn THEN "true" ELSE "false")

\* C24 as stated: isAvailable() never throws: it returns false on a network
\* error, a non-success status or a timeout and true on a success status;
\* it leaves the connected flag, the transport handle and the enabled-domain
\* set unchanged and opens no session.
C24_TrueOnSuccessStatus == [][IsAvailableSteps(SuccessStatus)]_vars

\* C24, amended: isAvailable() never throws: it returns true when its fetch
\* met a success status whose body parses as JSON, and false on a network
\* error, a non-success status, a timeout or a success status with an
\* unreadable body; from call to return it leaves the connected flag, the
\* transport handle, the enabled-domain set and the browser's transports as
\* they were, and its only request is the probe.
C24_IsAvailableTotalAndPure == [][IsAvailableSteps({"ok"})]_vars

\* isAvailable() has returned false on a success status whose body was not
\* JSON, on a provider that is connected.
C24_Witness ==
    LET c == call["c1"] IN
    /\ c.op = "isAvailable" /\ c.pc = "ret"
    /\ c.probe = "bad_json"
    /\ c.result = Ok("false")
    /\ connected /\ cdpClient # NULL

\* C28: in every interleaving of a tab operation with disconnect() on the
\* same provider, a tab attachment is opened only while the provider is
\* Connected: the step in which CDP({port, tab}) hands an operation its
\* attachment happens with the connected flag set.
C28_AttachOnlyWhileConnected ==
    [][\A p \in Callers :
         (call[p].attachment # "open" /\ call'[p].attachment = "open")
         => connected]_vars

\* C29: whenever the connected flag is true, after any sequence of connect()
\* and disconnect() calls, each baseline domain Page, Runtime and DOM has
\* been enabled on the root transport the provider holds, and every domain
\* recorded in the enabled-domain set was enabled on that same transport.
C29_BaselineEnabledOnHeldTransport ==
    connected => /\ cdpClient # NULL
                 /\ DomainSet \subseteq heldEnabled
                 /\ enabledDomains \subseteq heldEnabled

\* The elements of a list.
Range(list) == {list[i] : i \in 1..Len(list)}

\* Tier `hi` offers whatever tier `lo` offers.
AtLeast(hi, lo) ==
    /\ \A f \in Flags : lo[f] => hi[f]
    /\ Range(lo.supportedImageFormats) \subseteq Range(hi.supportedImageFormats)

\* C25: the three capability tiers are totally ordered TIER_1 >= TIER_2 >=
\* FALLBACK: every capability flag that is true in a lower tier is true in
\* every higher tier, and the image formats of a lower tier are among those
\* of every higher tier.
C25_TiersOrdered ==
    /\ AtLeast(getCapabilities, TIER_2_CAPABILITIES)
    /\ AtLeast(TIER_2_CAPABILITIES, FALLBACK_CAPABILITIES)
    /\ AtLeast(getCapabilities, FALLBACK_CAPABILITIES)

\* C26: the capability descriptor of a tier is immutable: whatever a caller
\* has done to a value getCapabilities() returned, its list members
\* included, a getCapabilities() call returns the original tier-1
\* descriptor, in every connection state.
C26_DescriptorImmutable == getCapabilities = TIER_1_CAPABILITIES

\* C30: when createConnectedBrowserTools rejects because the availability
\* check or connect() failed, its cleanup has released everything the
\* attempt acquired: no root transport is open, the provider is
\* Disconnected with no transport handle, its enabled-domain set is empty,
\* and the error rethrown is the one the attempt threw.
C30_FactoryCleanupReleases ==
    (server.role = "factory" /\ server.outcome = "threw"
       /\ server.thrown # NotSupported)
    => /\ rootOpen = {}
       /\ ~connected
       /\ enabledDomains = {}
       /\ server.thrown \in {PlainError("not available")}
                             \cup {BrowserConnectionError(x) :
                                     x \in {"ChromeNotAvailable", "OpenFailed",
                                            "EnableFailed"}}

\* C23: scrollPage on an existing tab of a connected provider with
\* scrollType 'element' and no selector fails with an error, whereas the
\* same call with scrollType 'top' or 'bottom' succeeds; the caller can
\* tell the two outcomes apart.
C23_ScrollOutcomesDiffer ==
    (/\ server.role = "scroll_page" /\ server.pc = "done"
     /\ server.browserTools /\ connected)
    => /\ (server.scrollType = "element" /\ ~server.selector)
          => server.outcome = "error"
       /\ server.scrollType \in {"top", "bottom"}
          => server.outcome = "content"

\* C27: every tool handler returns a content response describing the error,
\* and lets no exception escape, whenever browser initialisation or the
\* provider operation it calls fails.
C27_HandlersNeverThrow ==
    (server.role \in Tools /\ server.pc = "done" /\ server.thrown # NoResult)
    => server.outcome = "error"

\* C31: in captureScreenshot, captureHTML, captureCSS and extractElements a
\* failure of closing the tab attachment never changes the outcome of the
\* call: when close() has answered, well or not, the call completes with
\* the value or the error it had when the finally block began.
C31_CloseFailureKeepsOutcome ==
    [][\A p \in Callers :
         (call[p].pc = "tabClosing" /\ call'[p] # call[p])
         => /\ call[p].inner \in CaptureOps
            /\ call[p].result # NoResult
            /\ Completed(call'[p])
            /\ call'[p].result = call[p].result]_vars

\* captureCSS has returned its value although closing its attachment
\* failed; extractElements likewise keeps its CaptureError.
C31_Witness ==
    LET c == call["c1"] IN
    /\ c.op \in CaptureOps /\ c.pc = "ret"
    /\ c.attachment = "closeCalled"
    /\ \/ c.op = "captureCSS" /\ c.result = Ok("value")
       \/ c.op = "extractElements" /\ c.result = CaptureError(c.tabId, "elements")

\* C32: for any interleaving of concurrent tab operations on one provider,
\* on the same tab or on different tabs, each tab attachment is used only by
\* the operation that opened it and is closed only by that operation, at
\* most once: a step of one operation changes nothing of another operation,
\* its attachment included; close() is called only on an attachment that is
\* open and whose handle the operation holds; and no step of a tab
\* operation writes the provider's state.
C32_AttachmentsNotShared ==
    [][\A p \in Callers :
         (call'[p] # call[p] /\ call[p].inner \in CaptureOps)
         => /\ \A q \in Callers \ {p} : call'[q] = call[q]
            /\ UNCHANGED provider
            /\ (call'[p].pc = "tabClosing" /\ call[p].pc # "tabClosing")
               => /\ call[p].attachment = "open"
                  /\ call[p].tabClient # NULL
                  /\ "tabClose" \notin call[p].reqs
            /\ call[p].attachment \in {"closeCalled", "closed"}
               => call'[p].attachment # "open" /\ call'[p].pc # "tabClosing"
         ]_vars

\* Two operations hold attachments to the same tab at once.
C32_Witness ==
    /\ \A p \in Callers :
         /\ call[p].inner \in CaptureOps
         /\ call[p].tabId = "A"
         /\ call[p].attachment = "open"
    /\ call["c1"].pc = "command"
    /\ call["c2"].pc = "tabEnabling"

\* C33: attaching to a tab fails with TabNotFoundError exactly when the tab
\* does not exist at attach time: when connectToTab has thrown
\* TabNotFoundError, CDP({port, tab}) had not attached to the tab; a failure
\* to enable Page, Runtime or DOM on the attachment of an existing tab is
\* not reported as TabNotFoundError.
C33_TabNotFoundOnlyForMissingTab ==
    \A p \in Callers :
      call[p].thrown.kind = "TabNotFoundError" => call[p].attachment = "none"

\* Start tags of the two categories captureHTML can strip.
IsScriptTag(token) == token.t = "open" /\ token.tag = TagScript

IsStylingTag(token) ==
    /\ token.t = "open"
    /\ token.tag = TagStyle \/ (token.tag = TagLink /\ token.rel = "stylesheet")

\* The tokens of the live document that stay when the categories whose flag
\* is not set are taken out; below the root, style attributes go with the
\* styles.  (The elements of both categories have no children; the first
\* and the last token are the tags of the root.)
Without(html, scripts, styles) ==
    LET Stays(token) ==
            /\ scripts \/ token.tag # TagScript
            /\ styles \/ token.tag # TagStyle
            /\ styles \/ ~(token.tag = TagLink /\ token.rel = "stylesheet")
        kept == SelectSeq(html, Stays) IN
    [i \in 1..Len(kept) |->
        IF styles \/ i = 1 \/ i = Len(kept) THEN kept[i]
        ELSE [kept[i] EXCEPT !.style = FALSE]]

\* C34: captureHTML evaluates exactly one of three modes, chosen in this
\* priority: selector mode when options.selectors is non-empty, whatever
\* includeScripts and includeStyles are; otherwise clone-and-strip mode when
\* includeScripts or includeStyles is not set, whose value is
\* '<!DOCTYPE html>' followed by the document with only the categories
\* whose flag is not set taken out; otherwise the outerHTML of the live
\* document root, nothing removed.
C34_HtmlModePriority ==
    LET e == evaluation
        scripts == e.given.includeScripts = "true"
        styles == e.given.includeStyles = "true" IN
    (e.op = "captureHTML" /\ e.pc \in {"evaluated", "returned"})
        => /\ e.mode \in {"selectors", "strip", "verbatim"}
           /\ e.mode = "selectors" <=> Len(e.selectors) > 0
           /\ e.mode = "strip" <=> (Len(e.selectors) = 0 /\ (~scripts \/ ~styles))
           /\ e.mode = "verbatim" <=> (Len(e.selectors) = 0 /\ scripts /\ styles)
           /\ e.mode = "selectors"
                => e.value = JoinWith(SelectedHTML(e.doc, e.selectors), <<LineBreak>>)
           /\ e.mode = "strip"
                => e.value = <<Doctype, LineBreak>>
                                \o Without(outerHTML(e.doc), scripts, styles)
           /\ e.mode = "verbatim" => e.value = outerHTML(e.doc)

\* C34 witness: without selectors, includeScripts true and includeStyles
\* false, the strip script ran on a page with scripts and styles: the
\* scripts are in the value and the styles are not.
C34_Witness ==
    /\ evaluation.op = "captureHTML"
    /\ evaluation.pc = "evaluated"
    /\ evaluation.mode = "strip"
    /\ evaluation.given.includeScripts = "true"
    /\ evaluation.given.includeStyles = "false"
    /\ evaluation.doc = DocPlain
    /\ \E i \in 1..Len(evaluation.value) : IsScriptTag(evaluation.value[i])
    /\ \A i \in 1..Len(evaluation.value) : ~IsStylingTag(evaluation.value[i])

\* C35: in captureHTML an includeScripts or includeStyles that is left out
\* reads as false: a call without selectors that leaves a flag out takes the
\* clone-and-strip mode and takes that flag's category out, a call with no
\* options takes both out, and the verbatim mode is reached only when both
\* flags are given as true and no selector is given.
C35_OmittedFlagIsFalse ==
    LET e == evaluation
        noScripts == \A i \in 1..Len(e.value) : ~IsScriptTag(e.value[i])
        noStyles == \A i \in 1..Len(e.value) :
                       /\ ~IsStylingTag(e.value[i])
                       /\ (i > 3 /\ e.value[i].t = "open") => ~e.value[i].style IN
    (e.op = "captureHTML" /\ e.pc \in {"evaluated", "returned"})
        => /\ (e.given.includeScripts = "undefined" /\ Len(e.selectors) = 0)
                => (e.mode = "strip" /\ noScripts)
           /\ (e.given.includeStyles = "undefined" /\ Len(e.selectors) = 0)
                => (e.mode = "strip" /\ noStyles)
           /\ (e.given = NotGiven /\ Len(e.selectors) = 0)
                => e.value = <<Doctype, LineBreak>>
                                \o Without(outerHTML(e.doc), FALSE, FALSE)
           /\ e.mode = "verbatim"
                => /\ e.given.includeScripts = "true"
                   /\ e.given.includeStyles = "true"
                   /\ Len(e.selectors) = 0

\* C35 witness: captureHTML called with no options on a page with scripts
\* and styles has evaluated the strip script.
C35_Witness ==
    /\ evaluation.op = "captureHTML"
    /\ evaluation.pc = "evaluated"
    /\ evaluation.given = NotGiven
    /\ evaluation.selectors = <<>>
    /\ evaluation.doc = DocPlain
    /\ evaluation.mode = "strip"

\* C36: captureCSS called with a non-empty selector list in which every
\* selector fails the allow-list does not get the validation error, which
\* only an empty list of the caller gets: it goes on to attach to the tab,
\* and once its script has answered it returns the empty string, with the
\* one attachment it opened handed to close().
C36_AllRejectedSelectorsGiveEmptyCss ==
    \A p \in Callers :
      LET c == call[p] IN
      c.inner = "captureCSS"
        => /\ c.result = ValidationError("captureCSS") => c.selectors = <<>>
           /\ (c.selectors # <<>> /\ sanitizeSelectors(c.selectors) = <<>>)
                => /\ c.result.kind = "ok"
                        => /\ c.result.val = ""
                           /\ c.tabClient # NULL
                           /\ c.attachment \in {"closeCalled", "closed"}
                   /\ (Completed(c) /\ c.tabClient # NULL /\ c.thrown = NoResult)
                        => c.result \in {Ok(""), Caught(c)}

\* C36 witness: captureCSS with a list of one selector that fails the
\* allow-list has returned the empty string and its attachment is closed.
C36_Witness ==
    /\ call["c1"].op = "captureCSS"
    /\ call["c1"].selectors = <<SelScript>>
    /\ call["c1"].pc = "ret"
    /\ call["c1"].result = Ok("")
    /\ call["c1"].attachment = "closed"

\* C37 (as claimed): the command captureScreenshot sends has format
\* options.format, or 'png' when absent; captureBeyondViewport
\* options.fullPage, or false when absent; quality options.quality for every
\* supplied value in 0..100, and without a quality 80 for jpeg and none for
\* the other formats; a clip exactly when options.clip is given, with x, y,
\* width and height unchanged and scale devicePixelRatio, or 1 when absent.
C37_ScreenshotParamsFromOptions ==
    LET options == evaluation.given
        sent == evaluation.value IN
    (evaluation.op = "captureScreenshot" /\ evaluation.pc = "sent")
        => /\ sent.format = (IF options.format = Absent THEN "png" ELSE options.format[1])
           /\ sent.captureBeyondViewport = (options.fullPage = "true")
           /\ (options.quality # Absent /\ options.quality[1] \in 0..100)
                => sent.quality = options.quality
           /\ options.quality = Absent
                => sent.quality = (IF sent.format = "jpeg" THEN <<80>> ELSE Absent)
           /\ sent.clip # Absent <=> options.clip # Absent
           /\ options.clip # Absent
                => /\ sent.clip[1].x = options.clip[1].x
                   /\ sent.clip[1].y = options.clip[1].y
                   /\ sent.clip[1].width = options.clip[1].width
                   /\ sent.clip[1].height = options.clip[1].height
                   /\ sent.clip[1].scale =
                        (IF options.devicePixelRatio = Absent THEN 1
                         ELSE options.devicePixelRatio[1])

\* C38 (as claimed): for any interleaving of tool invocations on one
\* server, including invocations that arrive before the first
\* initialisation has finished, the server connects at most one provider,
\* every invocation is given that same provider, and the provider stored is
\* one whose initialisation succeeded.
C38_SingleProvider ==
    /\ Cardinality(server.connectedTools \cup Range(server.disconnected)) <= 1
    /\ \A i, j \in Invocations :
         (server.inv[i].tools # NULL /\ server.inv[j].tools # NULL)
            => server.inv[i].tools = server.inv[j].tools
    /\ \A i \in Invocations :
         (server.inv[i].pc = "using" /\ server.browserTools # NULL)
            => server.inv[i].tools = server.browserTools
    /\ server.browserTools # NULL
         => server.browserTools \in server.connectedTools \cup Range(server.disconnected)

\* The body of the shutdown routine runs at most once; disconnect() is
\* called at most once, exactly when a provider was stored when the routine
\* ran, and on that provider.
CleanupAtMostOnce ==
    /\ server.routines <= 1
    /\ Len(server.disconnected) <= 1
    /\ server.routines = 1
         => (Len(server.disconnected) = 1 <=> server.storedAtShutdown # NULL)
    /\ server.routines = 0 => Len(server.disconnected) = 0
    /\ server.disconnected # <<>> => server.disconnected[1] = server.storedAtShutdown

\* A step of the cleanup threw: close() of the provider's transport, or the
\* removal of the capture directory.
CleanupStepThrew == server.closed = "threw" \/ server.removed = "threw"

\* C39 (as claimed): for any sequence or interleaving of shutdown events the
\* routine runs its cleanup at most once, with at most one disconnect(),
\* made exactly when a provider had been initialised; the process exits
\* with code 0 when the cleanup completed and with code 1 when it threw.
C39_ExitCodeReportsFailure ==
    /\ CleanupAtMostOnce
    /\ server.exit = <<0>> => ~CleanupStepThrew
    /\ (server.exit # Absent /\ CleanupStepThrew) => server.exit = <<1>>

\* C39 (amended): the cleanup runs at most once, with at most one
\* disconnect(), made exactly when a provider was stored when the routine
\* ran; the process exits only from that one routine, only after the
\* disconnect() it called and the cleanup of the capture directory have
\* settled, and always with code 0, also when close() or the removal threw.
C39_ShutdownOnce ==
    /\ CleanupAtMostOnce
    /\ server.exit # Absent
         => /\ server.exit = <<0>>
            /\ server.routines = 1
            /\ server.closed # "unset" <=> server.storedAtShutdown # NULL
            /\ server.removed # "unset"

\* C39 witness: a second shutdown event arrived after the routine begun by
\* the first had called disconnect() on the stored provider; close() threw,
\* the provider is still connected, and the process has exited with code 0
\* after one disconnect().
C39_Witness ==
    /\ server.triggers = 2
    /\ server.routines = 1
    /\ server.storedAtShutdown # NULL
    /\ Len(server.disconnected) = 1
    /\ server.closed = "threw"
    /\ server.storedAtShutdown \in server.connectedTools
    /\ server.exit = <<0>>

====
